---- MODULE Spec2Model ----
(***************************************************************************)
(* cchd: the hook dispatcher.  The model covers input validation          *)
(* (src/protocol/validation.c), the envelope (src/protocol/cloudevents.c), *)
(* the transport dispatcher (src/network/http.c), the response interpreter *)
(* (src/protocol/json.c), the output (src/io/output.c) and the part of     *)
(* main.c that joins them.                                                 *)
(*                                                                         *)
(* JSON texts are modelled by their parse result.  A JSON value is a       *)
(* record [t, v, m]: t is the yyjson type of the value ("none" is the NULL    *)
(* pointer yyjson_obj_get returns for a missing key) and v is its content  *)
(* (the string of a string value, "true"/"false" of a boolean, the         *)
(* minified text of any other value); m holds the members of a nested     *)
(* object.                                                                 *)
(***************************************************************************)
EXTENDS Integers, Sequences, FiniteSets, TLC

-----------------------------------------------------------------------------
(* Bounds of the model *)

MaxServers == 3
MaxBuilds == 3
MaxAttemptIndex == 3
MaxEndpoints == 2
MaxThreads == 2
MaxServerArgs == 2

-----------------------------------------------------------------------------
(* Program constants *)

MAX_SERVERS == 10
RESPONSE_BUFFER_INITIAL_SIZE == 65536
INPUT_BUFFER_INITIAL_SIZE == 131072
INPUT_BUFFER_READ_CHUNK_SIZE == 8192
INPUT_MAX_SIZE == 524288
INITIAL_RETRY_DELAY_MS == 500
DEFAULT_TIMEOUT_MS == 5000
TYPE_BUFFER_SIZE == 256

CCHD_SUCCESS == 0
CCHD_ERROR_BLOCKED == 1
CCHD_ERROR_ASK_USER == 2
CCHD_ERROR_INVALID_ARG == 3
CCHD_ERROR_INVALID_URL == 4
CCHD_ERROR_INVALID_JSON == 5
CCHD_ERROR_INVALID_HOOK == 6
CCHD_ERROR_NETWORK == 10
CCHD_ERROR_CONNECTION == 11
CCHD_ERROR_TIMEOUT == 12
CCHD_ERROR_TLS == 13
CCHD_ERROR_DNS == 14
CCHD_ERROR_HTTP_CLIENT == 15
CCHD_ERROR_HTTP_SERVER == 16
CCHD_ERROR_SERVER_INVALID == 30
CCHD_ERROR_ALL_SERVERS_FAILED == 32

max_network_retries == 3
max_server_error_retries == 2
no_retry_for_client_errors == 1

-----------------------------------------------------------------------------
(* JSON values, as yyjson presents them *)

\* A member of a nested object, and the members of hookSpecificOutput
Leaf(t, v) == [t |-> t, v |-> v]
HookKeys == {"hookEventName", "permissionDecision", "permissionDecisionReason"}
NoMembers == [k \in HookKeys |-> Leaf("none", "")]

\* A member of the response root; m holds the members of an object value
JVal(t, v) == [t |-> t, v |-> v, m |-> NoMembers]
NULL == JVal("none", "")
JTrue == JVal("bool", "true")
JFalse == JVal("bool", "false")
JStr(s) == JVal("str", s)
JNum == JVal("num", "1")
JObj == JVal("obj", "{\"k\":1}")

yyjson_is_bool(val) == val.t = "bool"
yyjson_get_bool(val) == val.v = "true"
yyjson_is_str(val) == val.t = "str"
yyjson_get_str(val) == val.v
yyjson_is_obj(val) == val.t = "obj"
\* yyjson_val_write: the minified text of a value
yyjson_val_write(val) == IF val.t = "str" THEN "\"" \o val.v \o "\"" ELSE val.v

\* The absent modified payload (a NULL char pointer)
NullText == "<NULL>"

\* The keys of a response object: those the interpreter looks at, and
\* "action"
ResponseKeys ==
    {"continue", "stopReason", "suppressOutput", "decision", "reason",
     "modified_data", "hookSpecificOutput", "action"}

EmptyRoot == [k \in ResponseKeys |-> NULL]

\* yyjson_obj_get on the members of an object (the response root, or the m
\* of its hookSpecificOutput)
yyjson_obj_get(members, key) == members[key]

\* The hookSpecificOutput object with the given members
HookObj(name, perm, why) ==
    [t |-> "obj", v |-> "{hook}",
     m |-> [hookEventName |-> name, permissionDecision |-> perm,
            permissionDecisionReason |-> why]]

\* A response text, by what yyjson_read makes of it:
\*   "empty"    the empty string (strlen = 0)
\*   "garbage"  a non-empty text that is not JSON (yyjson_read returns NULL)
\*   "nonobj"   a JSON text whose root is not an object
\*   "obj"      a JSON object, root holding its members
Text(kind, root) == [kind |-> kind, root |-> root]
EmptyText == Text("empty", EmptyRoot)
GarbageText == Text("garbage", EmptyRoot)
NonObjText == Text("nonobj", EmptyRoot)
ObjText(root) == Text("obj", root)

strlen0(text) == text.kind = "empty"
yyjson_read(text) == IF text.kind \in {"empty", "garbage"} THEN "NULL" ELSE "doc"
RootIsObj(text) == text.kind = "obj"

-----------------------------------------------------------------------------
(* The response interpreter, src/protocol/json.c *)

\* One line written to stderr
Line(tag, text) == [tag |-> tag, text |-> text]

\* Mutant: the "suppressOutput" member is not read
parse_base_response_NoSuppress(response_root) ==
    LET continue_value == yyjson_obj_get(response_root, "continue")
        stop_reason_value == yyjson_obj_get(response_root, "stopReason")
    IN [continue |-> IF yyjson_is_bool(continue_value)
                       THEN yyjson_get_bool(continue_value) ELSE TRUE,
        stop_reason |-> IF yyjson_is_str(stop_reason_value)
                          THEN yyjson_get_str(stop_reason_value) ELSE NullText,
        suppress_output |-> FALSE]

\* Mutant: the "continue" member is not read
parse_base_response_IgnoreContinue(response_root) ==
    LET stop_reason_value == yyjson_obj_get(response_root, "stopReason")
        suppress_output_value == yyjson_obj_get(response_root, "suppressOutput")
    IN [continue |-> TRUE,
        stop_reason |-> IF yyjson_is_str(stop_reason_value)
                          THEN yyjson_get_str(stop_reason_value) ELSE NullText,
        suppress_output |-> IF yyjson_is_bool(suppress_output_value)
                              THEN yyjson_get_bool(suppress_output_value)
                              ELSE FALSE]

parse_base_response(response_root) ==
    LET continue_value == yyjson_obj_get(response_root, "continue")
        stop_reason_value == yyjson_obj_get(response_root, "stopReason")
        suppress_output_value == yyjson_obj_get(response_root, "suppressOutput")
    IN [continue |-> IF yyjson_is_bool(continue_value)
                       THEN yyjson_get_bool(continue_value) ELSE TRUE,
        stop_reason |-> IF yyjson_is_str(stop_reason_value)
                          THEN yyjson_get_str(stop_reason_value) ELSE NullText,
        suppress_output |-> IF yyjson_is_bool(suppress_output_value)
                              THEN yyjson_get_bool(suppress_output_value)
                              ELSE FALSE]

parse_decision(response_root) ==
    LET decision_value == yyjson_obj_get(response_root, "decision")
    IN IF yyjson_is_str(decision_value)
         THEN yyjson_get_str(decision_value) ELSE NullText

\* Mutant: "block" is not recognised
handle_decision_NoBlock(decision, response_root, exit_code) ==
    IF decision = NullText \/ decision = ""
      THEN [exit_code |-> 1, err |-> << >>]
      ELSE IF decision = "approve" \/ decision = "allow"
        THEN [exit_code |-> 0, err |-> << >>]
      ELSE [exit_code |-> exit_code, err |-> << >>]

\* Mutant: a decision that is not recognised blocks
handle_decision_UnknownBlocks(decision, response_root, exit_code) ==
    IF decision = NullText \/ decision = ""
      THEN [exit_code |-> 1, err |-> << >>]
      ELSE LET reason_value == yyjson_obj_get(response_root, "reason")
               reason == IF yyjson_is_str(reason_value)
                           THEN yyjson_get_str(reason_value) ELSE NullText
               say(tag) == IF reason # NullText THEN <<Line(tag, reason)>>
                                               ELSE << >>
           IN IF decision = "block"
                THEN [exit_code |-> 1, err |-> say("Blocked")]
              ELSE IF decision = "approve" \/ decision = "allow"
                THEN [exit_code |-> 0, err |-> say("Allowed")]
              ELSE [exit_code |-> 1, err |-> << >>]

\* Mutant: "block" blocks only when it comes with a reason
handle_decision_ReasonNeeded(decision, response_root, exit_code) ==
    IF decision = NullText \/ decision = ""
      THEN [exit_code |-> 1, err |-> << >>]
      ELSE LET reason_value == yyjson_obj_get(response_root, "reason")
               reason == IF yyjson_is_str(reason_value)
                           THEN yyjson_get_str(reason_value) ELSE NullText
               say(tag) == IF reason # NullText THEN <<Line(tag, reason)>>
                                               ELSE << >>
           IN IF decision = "block"
                THEN [exit_code |-> IF reason # NullText THEN 1 ELSE exit_code,
                      err |-> say("Blocked")]
              ELSE IF decision = "approve" \/ decision = "allow"
                THEN [exit_code |-> 0, err |-> say("Allowed")]
              ELSE [exit_code |-> exit_code, err |-> << >>]

\* Result: the exit code left in *exit_code_out and the stderr lines
handle_decision(decision, response_root, exit_code) ==
    IF decision = NullText \/ decision = ""
      THEN [exit_code |-> 1, err |-> << >>]
      ELSE LET reason_value == yyjson_obj_get(response_root, "reason")
               reason == IF yyjson_is_str(reason_value)
                           THEN yyjson_get_str(reason_value) ELSE NullText
               say(tag) == IF reason # NullText THEN <<Line(tag, reason)>>
                                               ELSE << >>
           IN IF decision = "block"
                THEN [exit_code |-> 1, err |-> say("Blocked")]
              ELSE IF decision = "approve" \/ decision = "allow"
                THEN [exit_code |-> 0, err |-> say("Allowed")]
              ELSE [exit_code |-> exit_code, err |-> << >>]

\* Mutant: modified_data is not extracted
handle_modify_Drop(response_root, modified_output) == modified_output

\* Result: the text left in *modified_output_ptr
handle_modify(response_root, modified_output) ==
    LET modified_value == yyjson_obj_get(response_root, "modified_data")
    IN IF modified_value # NULL THEN yyjson_val_write(modified_value)
                               ELSE modified_output

\* Mutant: "allow" does not reset the exit code
handle_hook_specific_AllowKeeps(response_root, exit_code) ==
    LET hook_specific == yyjson_obj_get(response_root, "hookSpecificOutput")
        hook_name == yyjson_obj_get(hook_specific.m, "hookEventName")
        perm_decision == yyjson_obj_get(hook_specific.m, "permissionDecision")
        perm == yyjson_get_str(perm_decision)
    IN IF /\ hook_specific # NULL /\ yyjson_is_obj(hook_specific)
          /\ yyjson_is_str(hook_name)
          /\ yyjson_get_str(hook_name) = "PreToolUse"
          /\ yyjson_is_str(perm_decision)
         THEN IF perm = "deny" THEN [exit_code |-> 1, err |-> << >>]
              ELSE IF perm = "ask" THEN [exit_code |-> 2, err |-> << >>]
              ELSE [exit_code |-> exit_code, err |-> << >>]
         ELSE [exit_code |-> exit_code, err |-> << >>]

\* Mutant: hookEventName is not compared with "PreToolUse"
handle_hook_specific_AnyEvent(response_root, exit_code) ==
    LET hook_specific == yyjson_obj_get(response_root, "hookSpecificOutput")
        perm_decision == yyjson_obj_get(hook_specific.m, "permissionDecision")
        perm == yyjson_get_str(perm_decision)
    IN IF /\ hook_specific # NULL /\ yyjson_is_obj(hook_specific)
          /\ yyjson_is_str(perm_decision)
         THEN IF perm = "deny" THEN [exit_code |-> 1, err |-> << >>]
              ELSE IF perm = "allow" THEN [exit_code |-> 0, err |-> << >>]
              ELSE IF perm = "ask" THEN [exit_code |-> 2, err |-> << >>]
              ELSE [exit_code |-> exit_code, err |-> << >>]
         ELSE [exit_code |-> exit_code, err |-> << >>]

handle_hook_specific(response_root, exit_code) ==
    LET hook_specific == yyjson_obj_get(response_root, "hookSpecificOutput")
        hook_name == yyjson_obj_get(hook_specific.m, "hookEventName")
        perm_decision == yyjson_obj_get(hook_specific.m, "permissionDecision")
        perm_reason ==
            yyjson_obj_get(hook_specific.m, "permissionDecisionReason")
        reason == IF yyjson_is_str(perm_reason)
                    THEN yyjson_get_str(perm_reason) ELSE NullText
        say(tag) == IF reason # NullText THEN <<Line(tag, reason)>> ELSE << >>
        perm == yyjson_get_str(perm_decision)
    IN IF /\ hook_specific # NULL /\ yyjson_is_obj(hook_specific)
          /\ yyjson_is_str(hook_name)
          /\ yyjson_get_str(hook_name) = "PreToolUse"
          /\ yyjson_is_str(perm_decision)
         THEN IF perm = "deny" THEN [exit_code |-> 1, err |-> say("Denied")]
              ELSE IF perm = "allow"
                THEN [exit_code |-> 0, err |-> say("Allowed")]
              ELSE IF perm = "ask"
                THEN [exit_code |-> 2, err |-> say("Ask")]
              ELSE [exit_code |-> exit_code, err |-> << >>]
         ELSE [exit_code |-> exit_code, err |-> << >>]

\* What the call leaves in its out-parameters, its return value and stderr
Outcome(ret, exit_code, modified, suppress, err) ==
    [ret |-> ret, exit_code |-> exit_code, modified |-> modified,
     suppress |-> suppress, err |-> err]

\* Mutant: fail_open is not consulted
FailCode_AlwaysClosed(is_fail_open) == 1

\* Mutant: every failure of the interpreter allows
FailCode_AlwaysOpen(is_fail_open) == 0

\* cchd_config_is_fail_open(config) ? 0 : 1
FailCode(is_fail_open) == IF is_fail_open THEN 0 ELSE 1

cchd_process_server_response(response_data, modified_in, is_fail_open, suppress_in, server_http_status) ==
    LET failcode == FailCode(is_fail_open)
    IN IF strlen0(response_data)
         THEN Outcome(CCHD_ERROR_INVALID_ARG, failcode, modified_in,
                      suppress_in, << >>)
       ELSE IF server_http_status >= 400 /\ server_http_status < 500
         THEN Outcome(CCHD_ERROR_HTTP_CLIENT, 1, modified_in, suppress_in,
                      << >>)
       ELSE IF server_http_status >= 500
         THEN Outcome(CCHD_ERROR_HTTP_SERVER, failcode, modified_in,
                      suppress_in, << >>)
       ELSE IF yyjson_read(response_data) = "NULL"
         THEN Outcome(CCHD_ERROR_INVALID_JSON, failcode, NullText, FALSE, << >>)
       ELSE IF ~RootIsObj(response_data)
         THEN Outcome(CCHD_ERROR_SERVER_INVALID, failcode, NullText, FALSE,
                      << >>)
       ELSE
         LET response_root == response_data.root
             base == parse_base_response(response_root)
         IN IF ~base.continue
              THEN Outcome(CCHD_SUCCESS, 1, NullText, FALSE,
                           IF base.stop_reason # NullText
                             THEN <<Line("Stopped", base.stop_reason)>>
                             ELSE << >>)
              ELSE
                LET decision == parse_decision(response_root)
                    modified == IF decision # NullText /\ decision = "modify"
                                  THEN handle_modify(response_root, NullText)
                                  ELSE NullText
                    d == IF decision # NullText /\ decision # "modify"
                           THEN handle_decision(decision, response_root, 0)
                           ELSE [exit_code |-> 0, err |-> << >>]
                    h == handle_hook_specific(response_root, d.exit_code)
                IN Outcome(CCHD_SUCCESS, h.exit_code, modified,
                           base.suppress_output, d.err \o h.err)

-----------------------------------------------------------------------------
(* Input validation and the envelope, src/protocol/validation.c and
   src/protocol/cloudevents.c *)

\* The keys of an input document the pipeline looks at
InputKeys == {"hook_event_name", "session_id", "tool_name", "correlation_id"}

valid_hooks == {"PreToolUse", "PostToolUse", "Notification",
                "UserPromptSubmit", "Stop", "SubagentStop", "PreCompact"}

\* stderr is written unless --json is given (--quiet is not modelled)
Say(cfg, lines) == IF cfg.json_output THEN << >> ELSE lines

\* Mutant: session_id is not looked at
cchd_validate_hook_event_fields_NoSession(input, cfg) ==
    LET hook_name == yyjson_obj_get(input.root, "hook_event_name")
    IN [ok |-> RootIsObj(input) /\ yyjson_is_str(hook_name), err |-> << >>]

\* Result: the return value and the lines written to stderr
cchd_validate_hook_event_fields(input, cfg) ==
    LET input_root == input.root
        hook_name == yyjson_obj_get(input_root, "hook_event_name")
        session_id == yyjson_obj_get(input_root, "session_id")
        tool_name == yyjson_obj_get(input_root, "tool_name")
        hook_name_str == yyjson_get_str(hook_name)
        unknown == IF hook_name_str \in valid_hooks THEN << >>
                   ELSE <<Line("Warning", "Unknown hook_event_name")>>
        no_tool == IF /\ hook_name_str \in {"PreToolUse", "PostToolUse"}
                      /\ tool_name = NULL
                     THEN <<Line("Warning", "should include 'tool_name'")>>
                     ELSE << >>
        fail(text) == [ok |-> FALSE, err |-> Say(cfg, <<Line("Error", text)>>)]
    IN IF ~RootIsObj(input) THEN fail("Input must be a JSON object")
       ELSE IF hook_name = NULL
         THEN fail("Missing required field 'hook_event_name'")
       ELSE IF session_id = NULL
         THEN fail("Missing required field 'session_id'")
       ELSE IF ~yyjson_is_str(hook_name)
         THEN fail("'hook_event_name' must be a string")
       ELSE IF ~yyjson_is_str(session_id)
         THEN [ok |-> FALSE,
               err |-> Say(cfg, unknown \o
                        <<Line("Error", "'session_id' must be a string")>>)]
       ELSE [ok |-> TRUE, err |-> Say(cfg, unknown \o no_tool)]

\* printf("%" PRIx64) of a non-negative number
HexDigit(d) == SubSeq("0123456789abcdef", d + 1, d + 1)
RECURSIVE Hex(_)
Hex(n) == IF n < 16 THEN HexDigit(n) ELSE Hex(n \div 16) \o HexDigit(n % 16)

\* A reading of the clocks: ok is the success of clock_gettime, sec and nsec
\* what it stores; if it fails sec is what time() returns
Clock(ok, sec, nsec) == [ok |-> ok, sec |-> sec, nsec |-> nsec]

\* cloudevents.c:100-112: the id, from the clock or, if clock_gettime fails,
\* from time() and the static counter
EventId(clock, cnt) ==
    Hex(clock.sec) \o "-" \o Hex(IF clock.ok THEN clock.nsec ELSE cnt)

\* cloudevents.c:106-108: the static counter after a build
NextCounter(clock, cnt) == IF clock.ok THEN cnt ELSE cnt + 1

\* Result: the return value and the attributes added to the envelope
add_required_cloudevents_attributes(input_root, clock, cnt) ==
    LET event_name_value == yyjson_obj_get(input_root, "hook_event_name")
        event_name == IF yyjson_is_str(event_name_value)
                        THEN yyjson_get_str(event_name_value) ELSE "Unknown"
        type_buffer == "com.claudecode.hook." \o event_name
        written == Len(type_buffer)
    IN [ok |-> ~(written >= TYPE_BUFFER_SIZE),
        specversion |-> "1.0",
        type |-> type_buffer,
        source |-> "/claude-code/hooks",
        id |-> EventId(clock, cnt)]

\* Result: the attributes added to the envelope (a missing one is NullText);
\* time has the resolution of a second
add_optional_cloudevents_attributes(input_root, clock) ==
    LET session_id_value == yyjson_obj_get(input_root, "session_id")
        correlation_id_value == yyjson_obj_get(input_root, "correlation_id")
    IN [time |-> "T" \o Hex(clock.sec),
        datacontenttype |-> "application/json",
        sessionid |-> IF yyjson_is_str(session_id_value)
                        THEN yyjson_get_str(session_id_value) ELSE NullText,
        correlationid |-> IF yyjson_is_str(correlation_id_value)
                            THEN yyjson_get_str(correlation_id_value)
                            ELSE NullText]

\* yyjson_val_mut_copy of the input root: every member, as it is
build_data_object(input_root) == [k \in InputKeys |-> input_root[k]]

\* The NULL document pointer, or the NULL string
NoEnvelope == [kind |-> "NULL"]

\* The envelope, or NoEnvelope (allocations are taken to succeed)
cchd_transform_to_cloudevents(input, clock, cnt) ==
    IF ~RootIsObj(input) THEN NoEnvelope
    ELSE LET req == add_required_cloudevents_attributes(input.root, clock, cnt)
             opt == add_optional_cloudevents_attributes(input.root, clock)
         IN IF ~req.ok THEN NoEnvelope
            ELSE [kind |-> "envelope",
                  specversion |-> req.specversion, type |-> req.type,
                  source |-> req.source, id |-> req.id,
                  time |-> opt.time, datacontenttype |-> opt.datacontenttype,
                  sessionid |-> opt.sessionid,
                  correlationid |-> opt.correlationid,
                  data |-> build_data_object(input.root)]

\* json.c:56-129.  Result: the protocol text (by its parse result) or
\* NoEnvelope, the stderr lines, and whether the envelope was built (the
\* clock was read)
cchd_process_input_to_protocol(input, cfg, clock, cnt) ==
    IF strlen0(input)
      THEN [protocol |-> NoEnvelope, err |-> << >>, built |-> FALSE]
    ELSE IF yyjson_read(input) = "NULL"
      THEN [protocol |-> NoEnvelope,
            err |-> Say(cfg, <<Line("Error", "Failed to parse input JSON")>>),
            built |-> FALSE]
    ELSE LET v == cchd_validate_hook_event_fields(input, cfg)
         IN IF ~v.ok
              THEN [protocol |-> NoEnvelope, err |-> v.err, built |-> FALSE]
              ELSE [protocol |-> cchd_transform_to_cloudevents(input, clock,
                                                               cnt),
                    err |-> v.err,
                    built |-> TRUE]

-----------------------------------------------------------------------------
(* Output, src/io/output.c *)

\* What is printed: the original input, the modified payload, or with --json
\* a status object
Printed(what, status, code, modified) ==
    [what |-> what, status |-> status, exit_code |-> code,
     modified |-> modified]

\* Mutant: the original input is echoed even when there is a payload
cchd_handle_output_InputOnly(suppress, modified, input, cfg, exit_code) ==
    IF suppress THEN << >>
    ELSE IF cfg.json_output
      THEN <<Printed("status",
                     IF exit_code = 0 THEN "allowed"
                     ELSE IF exit_code = 1 THEN "blocked" ELSE "ask_user",
                     exit_code, modified # NullText)>>
    ELSE <<Printed("input", "", exit_code, modified # NullText)>>

\* Result: the lines written to stdout
cchd_handle_output(suppress, modified, input, cfg, exit_code) ==
    IF suppress THEN << >>
    ELSE IF cfg.json_output
      THEN <<Printed("status",
                     IF exit_code = 0 THEN "allowed"
                     ELSE IF exit_code = 1 THEN "blocked" ELSE "ask_user",
                     exit_code, modified # NullText)>>
    ELSE IF cfg.plain_output
      THEN <<Printed(IF modified # NullText THEN "modified" ELSE "input",
                     "", exit_code, modified # NullText)>>
    ELSE <<Printed(IF modified # NullText THEN "modified" ELSE "input",
                   "", exit_code, modified # NullText)>>

-----------------------------------------------------------------------------
(* The backoff policy, src/network/retry.c *)

\* 1 << n
RECURSIVE Pow2(_)
Pow2(n) == IF n = 0 THEN 1 ELSE 2 * Pow2(n - 1)

\* An int32_t as two 16-bit halves, for products that leave its range; ub
\* tells that the mathematical value has left it (signed overflow)
Halves(x) == [hi |-> x \div 65536, lo |-> x % 65536, ub |-> FALSE]

\* The int32_t the halves are the two's complement of
Value32(h) ==
    (IF h.hi >= 32768 THEN h.hi - 65536 ELSE h.hi) * 65536 + h.lo

\* The low 32 bits of twice the value
Twice32(h) ==
    [hi |-> (2 * h.hi + ((2 * h.lo) \div 65536)) % 65536,
     lo |-> (2 * h.lo) % 65536,
     ub |-> h.ub \/ h.hi >= 16384]

\* delay_ms * (1 << n) for a positive delay_ms, as the multiply instruction
\* computes it: the low 32 bits of the product
RECURSIVE TimesPow2(_, _)
TimesPow2(h, n) == IF n = 0 THEN h ELSE TimesPow2(Twice32(h), n - 1)

\* if (delay_ms > cap) delay_ms = cap
Capped(delay_ms, cap) == IF delay_ms > cap THEN cap ELSE delay_ms

\* Mutant: the case label of the DNS failure is missing
cchd_calculate_retry_delay_DnsDefault(http_status, base_delay_ms, attempt_index, rnd) ==
    IF http_status < 0
      THEN IF -http_status = CCHD_ERROR_CONNECTION
             THEN Capped(Value32(TimesPow2(Halves(250 + (rnd % 250)),
                                           attempt_index)), 3000)
           ELSE IF -http_status = CCHD_ERROR_TIMEOUT
             THEN Capped((1000 + (rnd % 500))
                           * (IF attempt_index > 0 THEN 2 ELSE 1), 5000)
           ELSE Capped((500 + (rnd % 500))
                         * (IF attempt_index > 0 THEN 2 ELSE 1), 3000)
    ELSE IF http_status >= 500 /\ http_status < 600
      THEN Capped((1000 + (rnd % 500))
                    * (IF attempt_index > 0 THEN 2 + attempt_index ELSE 1),
                  10000)
    ELSE IF http_status = 429
      THEN Capped((5000 + (rnd % 2000))
                    * (IF attempt_index > 0 THEN 2 ELSE 1), 30000)
    ELSE base_delay_ms

\* retry.c:11-89; rnd is the value of the one call of rand().  The product
\* of retry.c:31 can leave the range of int32_t, and the result is then the
\* one a build without overflow checks gives.
cchd_calculate_retry_delay(http_status, base_delay_ms, attempt_index, rnd) ==
    IF http_status < 0
      THEN IF -http_status \in {CCHD_ERROR_CONNECTION, CCHD_ERROR_DNS}
             THEN Capped(Value32(TimesPow2(Halves(250 + (rnd % 250)),
                                           attempt_index)), 3000)
           ELSE IF -http_status = CCHD_ERROR_TIMEOUT
             THEN Capped((1000 + (rnd % 500))
                           * (IF attempt_index > 0 THEN 2 ELSE 1), 5000)
           ELSE Capped((500 + (rnd % 500))
                         * (IF attempt_index > 0 THEN 2 ELSE 1), 3000)
    ELSE IF http_status >= 500 /\ http_status < 600
      THEN Capped((1000 + (rnd % 500))
                    * (IF attempt_index > 0 THEN 2 + attempt_index ELSE 1),
                  10000)
    ELSE IF http_status = 429
      THEN Capped((5000 + (rnd % 2000))
                    * (IF attempt_index > 0 THEN 2 ELSE 1), 30000)
    ELSE base_delay_ms

-----------------------------------------------------------------------------
(* State *)

VARIABLES
    config,             \* cchd_config_t: server_urls, fail_open
    g_curl_handle,      \* the pooled handle: "NULL" or "handle"
    g_curl_mutex,       \* "unlocked" or "locked"
    pc,                 \* position of the (single) pipeline thread
    server_idx,         \* loop variables of cchd_send_request_to_server
    attempt,
    max_attempts,
    last_http_status,
    server_response,    \* cchd_response_buffer_t: data, size, capacity
    server_http_status, \* value returned by cchd_send_request_to_server
    program_exit_code,
    modified_output_json,
    suppress_output,
    stderr_out,         \* lines the interpreter wrote to stderr
    sent,               \* history: number of requests per endpoint
    kind,               \* history: the class of the statuses of an endpoint
                        \*   ("none" before its first, "mixed" if several)
    n200,               \* history: number of attempts that returned 200
    nsleep,             \* history: number of usleep calls
    answered,           \* history: the body received in the latest attempt
    input_json,         \* the text read from stdin
    protocol_json,      \* the serialized envelope, or NoEnvelope
    stdout_out,         \* what was written to stdout
    counter,            \* the static counter of the id fallback
    built,              \* history: the ids of the envelopes built so far
    retry_delay_ms,     \* the delay of the backoff in progress (http.c:326)
    rand_value,         \* history: what rand() returned for that delay
    threads,            \* the callers of cchd_send_request_to_server when
                        \*   the dispatcher is used from several threads
    loaded,             \* the cchd_config_t the loaders of config.c fill:
                        \*   its server_urls slots and its server_count
    reader              \* stdin and what cchd_read_input_from_stdin made
                        \*   of it

vars == <<config, g_curl_handle, g_curl_mutex, pc, server_idx, attempt,
          max_attempts, last_http_status, server_response,
          server_http_status, program_exit_code, modified_output_json,
          suppress_output, stderr_out, sent, kind, n200, nsleep, answered,
          input_json, protocol_json, stdout_out, counter, built,
          retry_delay_ms, rand_value, threads, loaded, reader>>

dispatch_vars == <<server_idx, attempt, max_attempts, last_http_status>>
result_vars == <<program_exit_code, modified_output_json, suppress_output,
                 stderr_out>>
history_vars == <<sent, kind, n200, nsleep, answered>>
main_vars == <<input_json, protocol_json, stdout_out, counter, built>>
backoff_vars == <<retry_delay_ms, rand_value>>
loader_vars == <<loaded, reader>>

-----------------------------------------------------------------------------
(* The environment: URLs, statuses and bodies *)

EmptyUrl == ""
SomeUrl == "http://server/hook"

cchd_config_get_server_count(cfg) == Len(cfg.server_urls)
cchd_config_get_server_url(cfg, index) ==
    IF index >= Len(cfg.server_urls) THEN NullText
    ELSE cfg.server_urls[index + 1]
cchd_config_is_fail_open(cfg) == cfg.fail_open
cchd_config_get_timeout_ms(cfg) == cfg.timeout_ms
cchd_config_is_json_output(cfg) == cfg.json_output
cchd_config_is_plain_output(cfg) == cfg.plain_output

\* The server lists main accepts: at least one URL passes
\* cchd_validate_server_url (an empty URL does not)
ServerLists ==
    {l \in UNION {[1..n -> {EmptyUrl, SomeUrl}] : n \in 1..MaxServers} :
        \E i \in DOMAIN l : l[i] # EmptyUrl}

\* What perform_single_request_with_handle can return: an HTTP status, or
\* the negative of a CCHD error code
NetworkFailures == {-CCHD_ERROR_CONNECTION, -CCHD_ERROR_TIMEOUT,
                    -CCHD_ERROR_NETWORK, -CCHD_ERROR_DNS}
FatalFailures == {-CCHD_ERROR_INVALID_URL, -CCHD_ERROR_TLS}
OtherFailures == {-1}
HttpStatuses == {200, 301, 404, 429, 500}
Statuses == HttpStatuses \cup NetworkFailures \cup FatalFailures
              \cup OtherFailures
\* The statuses of the pipeline specification: those of the branches of the
\* retry policy that name their statuses (http.c:355-380)
PipelineStatuses == Statuses \ ({301} \cup OtherFailures)

\* The class of a status, as the retry policy tells them apart
ClassOf(status) ==
    IF status = 200 THEN "ok"
    ELSE IF status \in NetworkFailures THEN "network"
    ELSE IF status \in FatalFailures THEN "fatal"
    ELSE IF status < 0 THEN "internal"
    ELSE IF status >= 500 /\ status < 600 THEN "server"
    ELSE IF status = 429 THEN "rate"
    ELSE IF status >= 400 /\ status < 500 THEN "client"
    ELSE "other"

\* The class of the statuses an endpoint has answered with so far: its only
\* class, "throttled" for a blend of 5xx and 429 (one retry budget in
\* http.c:367-374), "mixed" for any other blend
MergeKind(old, class) ==
    IF old \in {"none", class} THEN class
    ELSE IF {old, class} \subseteq {"server", "rate", "throttled"}
      THEN "throttled"
    ELSE "mixed"

\* Response roots: every combination of the members the interpreter reads
ContinueVals == {NULL, JTrue, JFalse, JStr("false")}
SuppressVals == {NULL, JTrue, JFalse, JNum}
DecisionVals == {NULL, JStr("block"), JStr("approve"), JStr("allow"),
                 JStr("modify"), JStr("continue"), JStr(""), JNum}
ModifiedVals == {NULL, JObj}
HookNameVals == {Leaf("none", ""), Leaf("str", "PreToolUse"),
                 Leaf("str", "PostToolUse"), Leaf("num", "1")}
PermVals == {Leaf("none", ""), Leaf("str", "deny"), Leaf("str", "allow"),
             Leaf("str", "ask"), Leaf("str", "maybe"), Leaf("num", "1")}
\* The three reason strings are present together or absent together
ReasonVals == {"", "why"}
HookVals(why) ==
    {NULL, JStr("PreToolUse")} \cup
    {HookObj(n, p, IF why = "" THEN Leaf("none", "") ELSE Leaf("str", why)) :
        n \in HookNameVals, p \in PermVals}

Root(c, s, d, m, h, why) ==
    [continue |-> c, stopReason |-> IF why = "" THEN NULL ELSE JStr(why),
     suppressOutput |-> s, decision |-> d,
     reason |-> IF why = "" THEN NULL ELSE JStr(why),
     modified_data |-> m, hookSpecificOutput |-> h, action |-> NULL]

ObjRoots ==
    UNION {{Root(c, s, d, m, h, why) :
               c \in ContinueVals, s \in SuppressVals, d \in DecisionVals,
               m \in ModifiedVals, h \in HookVals(why)} : why \in ReasonVals}

\* Response roots with the decision string under "action"
ActionRoots ==
    {[EmptyRoot EXCEPT !.action = a, !.modified_data = m, !.decision = d] :
        a \in {JStr("block"), JStr("allow"), JStr("modify")},
        m \in ModifiedVals, d \in {NULL, JStr("allow")}}

AllTexts == {EmptyText, GarbageText, NonObjText}
              \cup {ObjText(r) : r \in ObjRoots \cup ActionRoots}

\* The bodies the servers of the pipeline specification answer with
BlockRoot == [EmptyRoot EXCEPT !.decision = JStr("block"),
                               !.modified_data = JObj]
StopRoot == [EmptyRoot EXCEPT !.continue = JFalse,
                              !.decision = JStr("allow")]
ModifyRoot == [EmptyRoot EXCEPT !.decision = JStr("modify"),
                                !.modified_data = JObj,
                                !.suppressOutput = JTrue]
AskRoot == [EmptyRoot EXCEPT !.hookSpecificOutput =
               HookObj(Leaf("str", "PreToolUse"), Leaf("str", "ask"),
                       Leaf("none", ""))]
OkBodies == {EmptyText, GarbageText, NonObjText, ObjText(EmptyRoot),
             ObjText(BlockRoot), ObjText(StopRoot), ObjText(ModifyRoot),
             ObjText(AskRoot)}
ErrorBodies == {EmptyText, ObjText(ModifyRoot)}

\* A payload that is echoed: "modify" without suppressOutput
EchoRoot == [EmptyRoot EXCEPT !.decision = JStr("modify"),
                              !.modified_data = JObj]

\* The bodies of the specification of the whole of main
InputBodies(status) ==
    IF status = 200 THEN OkBodies \cup {ObjText(EchoRoot)}
    ELSE IF status > 0 THEN ErrorBodies
    ELSE {EmptyText}

\* The bodies that can come with a status
BodiesFor(status) ==
    IF status = 200 THEN OkBodies
    ELSE IF status > 0 THEN ErrorBodies
    ELSE {EmptyText}

\* Input documents: every combination of the two required fields, with and
\* without the optional ones; LongName is the shortest event name whose type
\* does not fit the type buffer
RECURSIVE Repeat(_, _)
Repeat(str, n) ==
    IF n = 0 THEN ""
    ELSE LET half == Repeat(str, n \div 2)
         IN half \o half \o (IF n % 2 = 1 THEN str ELSE "")
LongName == Repeat("n", TYPE_BUFFER_SIZE - Len("com.claudecode.hook."))
EventNameVals == {NULL, JNum, JStr(""), JStr("PreToolUse"), JStr("Custom"),
                  JStr(LongName)}
SessionVals == {NULL, JNum, JStr(""), JStr("s1")}
InputRoot(name, session, extras) ==
    [hook_event_name |-> name, session_id |-> session,
     tool_name |-> IF extras THEN JStr("Bash") ELSE NULL,
     correlation_id |-> IF extras THEN JStr("c1") ELSE NULL]
EmptyInputRoot == [k \in InputKeys |-> NULL]
Inputs ==
    {Text("empty", EmptyInputRoot), Text("garbage", EmptyInputRoot),
     Text("nonobj", EmptyInputRoot)} \cup
    {Text("obj", InputRoot(name, session, extras)) :
        name \in EventNameVals, session \in SessionVals, extras \in BOOLEAN}
DefaultInput == Text("obj", InputRoot(JStr("PreToolUse"), JStr("s1"), TRUE))

\* Clock readings
Secs == {1, 17}
Nsecs == {0, 1, 16}
ClockReadings == {Clock(ok, sec, nsec) :
                     ok \in BOOLEAN, sec \in Secs, nsec \in Nsecs}
DefaultClock == Clock(TRUE, 1, 0)
PipelineClocks == {DefaultClock, Clock(FALSE, 17, 0)}

\* Values of rand(): each jitter span (250, 500, 2000) gets its least and
\* its greatest remainder
Rands == {0, 1, 249, 499, 1999}
PipelineRands == {0}
DispatchRands == {0, 1999}

\* Statuses cchd_calculate_retry_delay is called with
DelayStatuses == Statuses \cup {503, 599, 600, -CCHD_ERROR_ALL_SERVERS_FAILED}

\* Configured timeouts
Timeouts == {DEFAULT_TIMEOUT_MS, 30000}

\* Bytes of a text
TextLen(text) == IF text.kind = "empty" THEN 0 ELSE 16

-----------------------------------------------------------------------------
(* The response buffer, src/network/http.c *)

EmptyBuffer == [data |-> << >>, size |-> 0, capacity |-> 0]

\* data is the NULL pointer exactly while nothing has been allocated
DataIsNull(buf) == buf.capacity = 0

\* write_callback: libcurl hands over the body (it is not called for an
\* empty body)
write_callback(buf, contents) ==
    LET real_size == TextLen(contents)
        required_size == buf.size + real_size + 1
        new_capacity == IF buf.capacity * 2 < required_size
                          THEN required_size ELSE buf.capacity * 2
    IN IF real_size = 0 THEN buf
       ELSE [data |-> Append(buf.data, contents),
             size |-> buf.size + real_size,
             capacity |-> IF required_size > buf.capacity
                            THEN new_capacity ELSE buf.capacity]

\* The NUL-terminated string in the buffer, as the interpreter reads it: the
\* texts received since the last reset, concatenated (two non-empty texts in
\* a row are not a JSON text)
CString(buf) ==
    IF Len(buf.data) = 0 THEN EmptyText
    ELSE IF Len(buf.data) = 1 THEN buf.data[1]
    ELSE GarbageText

\* Mutant: the buffer keeps what earlier attempts received
ResetBuffer_Keep(buf) == buf

\* Mutant: the reset gives the allocation back
ResetBuffer_Free(buf) == [buf EXCEPT !.size = 0, !.data = << >>,
                                     !.capacity = 0]

\* http.c:315-319, the reset before a retry or a fallback attempt
ResetBuffer(buf) == [buf EXCEPT !.size = 0, !.data = << >>]

-----------------------------------------------------------------------------
(* The transport dispatcher, src/network/http.c *)

\* Mutant: a network failure raises the retry budget to 4
RetryStrategy_FourNetwork(http_status, cur_max_attempts) ==
    IF http_status < 0
      THEN IF -http_status \in {CCHD_ERROR_INVALID_URL, CCHD_ERROR_TLS}
             THEN [should_retry |-> FALSE, max_attempts |-> cur_max_attempts]
           ELSE [should_retry |-> TRUE,
                 max_attempts |-> max_network_retries + 1]
    ELSE IF (http_status >= 500 /\ http_status < 600) \/ http_status = 429
      THEN [should_retry |-> TRUE, max_attempts |-> max_server_error_retries]
    ELSE IF http_status >= 400 /\ http_status < 500
      THEN [should_retry |-> FALSE,
            max_attempts |-> no_retry_for_client_errors]
    ELSE [should_retry |-> FALSE, max_attempts |-> cur_max_attempts]

\* Mutant: every 4xx is retried like 429
RetryStrategy_Retry4xx(http_status, cur_max_attempts) ==
    IF http_status < 0
      THEN IF -http_status \in {CCHD_ERROR_INVALID_URL, CCHD_ERROR_TLS}
             THEN [should_retry |-> FALSE, max_attempts |-> cur_max_attempts]
           ELSE [should_retry |-> TRUE, max_attempts |-> max_network_retries]
    ELSE IF http_status >= 400 /\ http_status < 600
      THEN [should_retry |-> TRUE, max_attempts |-> max_server_error_retries]
    ELSE [should_retry |-> FALSE, max_attempts |-> cur_max_attempts]

\* Mutant: 5xx and 429 get the retry budget of the network failures
RetryStrategy_SameBudget(http_status, cur_max_attempts) ==
    IF http_status < 0
      THEN IF -http_status \in {CCHD_ERROR_INVALID_URL, CCHD_ERROR_TLS}
             THEN [should_retry |-> FALSE, max_attempts |-> cur_max_attempts]
           ELSE [should_retry |-> TRUE, max_attempts |-> max_network_retries]
    ELSE IF (http_status >= 500 /\ http_status < 600) \/ http_status = 429
      THEN [should_retry |-> TRUE, max_attempts |-> max_network_retries]
    ELSE IF http_status >= 400 /\ http_status < 500
      THEN [should_retry |-> FALSE,
            max_attempts |-> no_retry_for_client_errors]
    ELSE [should_retry |-> FALSE, max_attempts |-> cur_max_attempts]

\* Mutant: a status no branch names is retried like a network failure
RetryStrategy_RetryOther(http_status, cur_max_attempts) ==
    IF http_status < 0
      THEN IF -http_status \in {CCHD_ERROR_INVALID_URL, CCHD_ERROR_TLS}
             THEN [should_retry |-> FALSE, max_attempts |-> cur_max_attempts]
           ELSE [should_retry |-> TRUE, max_attempts |-> max_network_retries]
    ELSE IF (http_status >= 500 /\ http_status < 600) \/ http_status = 429
      THEN [should_retry |-> TRUE, max_attempts |-> max_server_error_retries]
    ELSE IF http_status >= 400 /\ http_status < 500
      THEN [should_retry |-> FALSE,
            max_attempts |-> no_retry_for_client_errors]
    ELSE [should_retry |-> TRUE, max_attempts |-> max_network_retries]

\* http.c:349-381: should_retry and the new max_attempts after a status
\* other than 200
RetryStrategy(http_status, cur_max_attempts) ==
    IF http_status < 0
      THEN IF -http_status \in {CCHD_ERROR_CONNECTION, CCHD_ERROR_TIMEOUT,
                                CCHD_ERROR_NETWORK, CCHD_ERROR_DNS}
             THEN [should_retry |-> TRUE, max_attempts |-> max_network_retries]
           ELSE IF -http_status \in {CCHD_ERROR_INVALID_URL, CCHD_ERROR_TLS}
             THEN [should_retry |-> FALSE, max_attempts |-> cur_max_attempts]
           ELSE [should_retry |-> TRUE, max_attempts |-> max_network_retries]
    ELSE IF http_status >= 500 /\ http_status < 600
      THEN [should_retry |-> TRUE, max_attempts |-> max_server_error_retries]
    ELSE IF http_status = 429
      THEN [should_retry |-> TRUE, max_attempts |-> max_server_error_retries]
    ELSE IF http_status >= 400 /\ http_status < 500
      THEN [should_retry |-> FALSE,
            max_attempts |-> no_retry_for_client_errors]
    ELSE [should_retry |-> FALSE, max_attempts |-> cur_max_attempts]

\* Mutant: a 200 does not end the attempt loop at once
AfterAttempt_Retry200(http_status, cur_attempt, strategy) ==
    IF ~strategy.should_retry /\ http_status # 200 THEN "break"
    ELSE IF cur_attempt + 1 < strategy.max_attempts THEN "retry"
    ELSE IF http_status = 200 THEN "return"
    ELSE "break"

\* Mutant: a 200 is not recognised as success
AfterAttempt_Skip200(http_status, cur_attempt, strategy) ==
    IF ~strategy.should_retry THEN "break"
    ELSE IF cur_attempt + 1 < strategy.max_attempts THEN "retry"
    ELSE "break"

\* http.c:340-347, 383-392 and the loop condition of 313: what follows an
\* attempt
AfterAttempt(http_status, cur_attempt, strategy) ==
    IF http_status = 200 THEN "return"
    ELSE IF ~strategy.should_retry THEN "break"
    ELSE IF cur_attempt + 1 < strategy.max_attempts THEN "retry"
    ELSE "break"

\* Mutant: the server loop steps back
NextIndex_Back(idx) == IF idx > 0 THEN idx - 1 ELSE idx + 1

\* http.c:292, server_idx++
NextIndex(idx) == idx + 1

\* Mutant: the delay is computed for the index of the attempt to come
BackoffIndex_Same(cur_attempt) == cur_attempt

\* http.c:327, the attempt index the delay is computed for
BackoffIndex(cur_attempt) == cur_attempt - 1

\* attempt and max_attempts once the attempt loop is left (they are
\* declared inside the server loop)
OutOfLoop ==
    /\ attempt' = 0
    /\ max_attempts' = 0

\* http.c:265-288: argument checks, get_global_curl_handle (which creates
\* the handle if there is none; curl_easy_init may fail), the lock and the
\* pre-allocation of the response buffer (cchd_secure_malloc may fail)
SendEnter ==
    /\ pc = "main"
    /\ \E init_ok \in BOOLEAN, malloc_ok \in BOOLEAN :
         LET handle == IF g_curl_handle = "NULL" /\ init_ok THEN "handle"
                       ELSE g_curl_handle
         IN /\ g_curl_handle' = handle
            /\ IF cchd_config_get_server_count(config) = 0 \/ handle = "NULL"
                 THEN /\ server_http_status' = -1
                      /\ pc' = "returned"
                      /\ UNCHANGED <<g_curl_mutex, server_response>>
                 ELSE /\ g_curl_mutex' = "locked"
                      /\ server_response' =
                           IF DataIsNull(server_response) /\ malloc_ok
                             THEN [server_response EXCEPT
                                     !.capacity = RESPONSE_BUFFER_INITIAL_SIZE]
                             ELSE server_response
                      /\ pc' = "server"
                      /\ UNCHANGED server_http_status
    /\ UNCHANGED <<config, loader_vars, threads, backoff_vars,
                   dispatch_vars, result_vars, history_vars,
                   main_vars>>

\* http.c:291-311 and 411-412: the head of the server loop.  Past the end of
\* the list the call returns AllServersFailed; an empty URL is skipped.
NextServer ==
    /\ pc = "server"
    /\ IF server_idx >= cchd_config_get_server_count(config)
         THEN /\ g_curl_mutex' = "unlocked"
              /\ server_http_status' = -CCHD_ERROR_ALL_SERVERS_FAILED
              /\ pc' = "returned"
              /\ last_http_status' = 0
              /\ UNCHANGED <<server_idx, attempt, max_attempts>>
         ELSE IF cchd_config_get_server_url(config, server_idx) = EmptyUrl
           THEN /\ server_idx' = NextIndex(server_idx)
                /\ pc' = "server"
                /\ last_http_status' = 0
                /\ UNCHANGED <<g_curl_mutex, server_http_status, attempt,
                               max_attempts>>
           ELSE /\ last_http_status' = -1
                /\ max_attempts' = max_network_retries
                /\ attempt' = 0
                /\ pc' = "attempt"
                /\ UNCHANGED <<g_curl_mutex, server_http_status, server_idx>>
    /\ UNCHANGED <<config, loader_vars, threads, backoff_vars,
                   g_curl_handle, server_response, result_vars,
                   history_vars, main_vars>>

\* http.c:87-92: without a positive timeout no request is made
StatusAllowed(cfg, http_status) ==
    cchd_config_get_timeout_ms(cfg) <= 0 => http_status = -1

\* http.c:313-401: the attempt loop from one request to the next: the reset
\* before the first attempt at a fallback endpoint, the request (its status
\* and body come from the network), the choice between returning, retrying
\* and giving the endpoint up and, before a retry, the reset of the buffer
\* and the backoff sleep of the next iteration (rands: what rand() may return)
Attempt(http_status, body, rands) ==
    /\ pc = "attempt"
    /\ attempt < max_attempts
    /\ StatusAllowed(config, http_status)
    /\ LET reset == attempt = 0 /\ server_idx > 0
           buf == IF reset THEN ResetBuffer(server_response)
                  ELSE server_response
           strategy == RetryStrategy(http_status, max_attempts)
           after == AfterAttempt(http_status, attempt, strategy)
           e == server_idx + 1
       IN /\ server_response' =
                IF after = "retry"
                  THEN ResetBuffer(write_callback(buf, body))
                ELSE write_callback(buf, body)
          /\ IF after = "retry"
               THEN \E rnd \in rands :
                      /\ retry_delay_ms' =
                            cchd_calculate_retry_delay(
                                http_status, INITIAL_RETRY_DELAY_MS,
                                BackoffIndex(attempt + 1), rnd)
                      /\ rand_value' = rnd
             ELSE /\ retry_delay_ms' = 0
                  /\ rand_value' = 0
          /\ nsleep' = IF after = "retry" THEN nsleep + 1 ELSE nsleep
          /\ sent' = [sent EXCEPT ![e] = @ + 1]
          /\ kind' = [kind EXCEPT ![e] = MergeKind(@, ClassOf(http_status))]
          /\ n200' = IF http_status = 200 THEN n200 + 1 ELSE n200
          /\ answered' = body
          /\ last_http_status' = http_status
          /\ IF after = "return"
               THEN /\ g_curl_mutex' = "unlocked"
                    /\ server_http_status' = http_status
                    /\ pc' = "returned"
                    /\ OutOfLoop
                    /\ UNCHANGED server_idx
             ELSE IF after = "break"
               THEN /\ server_idx' = NextIndex(server_idx)
                    /\ pc' = "server"
                    /\ OutOfLoop
                    /\ UNCHANGED <<g_curl_mutex, server_http_status>>
             ELSE /\ attempt' = attempt + 1
                  /\ max_attempts' = strategy.max_attempts
                  /\ pc' = "attempt"
                  /\ UNCHANGED <<g_curl_mutex, server_http_status, server_idx>>
    /\ UNCHANGED <<config, loader_vars, threads, g_curl_handle,
                   result_vars, main_vars>>

-----------------------------------------------------------------------------
(* main.c: process_request_and_response after the dispatcher has returned *)

\* Mutant: the error code of the dispatcher is not passed on
MapErrorCode_Blocked(status) == CCHD_ERROR_BLOCKED

\* main.c:208-213: the exit code in fail-closed mode without a usable 200
MapErrorCode(status) ==
    IF status < 0 THEN -status ELSE CCHD_ERROR_BLOCKED

Process ==
    /\ pc = "returned"
    /\ IF server_http_status = 200 /\ ~DataIsNull(server_response)
         THEN LET r == cchd_process_server_response(
                          CString(server_response), modified_output_json,
                          cchd_config_is_fail_open(config), suppress_output,
                          server_http_status)
              IN /\ program_exit_code' = r.exit_code
                 /\ modified_output_json' = r.modified
                 /\ suppress_output' = r.suppress
                 /\ stderr_out' = stderr_out \o r.err
       ELSE IF ~cchd_config_is_fail_open(config)
         THEN /\ program_exit_code' = MapErrorCode(server_http_status)
              /\ suppress_output' = TRUE
              /\ UNCHANGED <<modified_output_json, stderr_out>>
       ELSE /\ program_exit_code' = 0
            /\ UNCHANGED <<modified_output_json, suppress_output, stderr_out>>
    /\ server_response' = EmptyBuffer
    /\ pc' = "done"
    /\ UNCHANGED <<config, loader_vars, threads, backoff_vars,
                   g_curl_handle, g_curl_mutex, dispatch_vars,
                   server_http_status, history_vars, main_vars>>

\* main.c:273-275 and 288: cchd_handle_output, and main returns
Output ==
    /\ pc \in {"done", "interpreted"}
    /\ stdout_out' = stdout_out \o
           cchd_handle_output(suppress_output, modified_output_json,
                              input_json, config, program_exit_code)
    /\ pc' = "exited"
    /\ UNCHANGED <<config, loader_vars, threads, backoff_vars,
                   g_curl_handle, g_curl_mutex, dispatch_vars,
                   server_response, server_http_status, result_vars,
                   history_vars, input_json, protocol_json, counter, built>>

\* exit(code) before anything was sent
Abort(code, err) ==
    /\ program_exit_code' = code
    /\ stderr_out' = stderr_out \o err
    /\ pc' = "aborted"
    /\ UNCHANGED <<modified_output_json, suppress_output, protocol_json>>

\* main.c:255-263: read_and_validate_input and transform_input_json, with the
\* clock reading the envelope is built with
TransformInput(clock) ==
    /\ pc = "start"
    /\ LET r == cchd_process_input_to_protocol(input_json, config, clock,
                                               counter)
       IN /\ IF strlen0(input_json)
               THEN Abort(CCHD_ERROR_INVALID_JSON,
                          Say(config, <<Line("Error", "Empty input")>>))
             ELSE IF r.protocol.kind = "NULL"
               THEN Abort(IF yyjson_read(input_json) # "NULL"
                            THEN CCHD_ERROR_INVALID_HOOK
                            ELSE CCHD_ERROR_INVALID_JSON, r.err)
             ELSE /\ protocol_json' = r.protocol
                  /\ stderr_out' = stderr_out \o r.err
                  /\ pc' = "main"
                  /\ UNCHANGED <<program_exit_code, modified_output_json,
                                 suppress_output>>
          /\ counter' = IF ~strlen0(input_json) /\ r.built
                          THEN NextCounter(clock, counter) ELSE counter
          /\ built' = IF ~strlen0(input_json) /\ r.built
                        THEN Append(built, EventId(clock, counter)) ELSE built
    /\ UNCHANGED <<config, loader_vars, threads, backoff_vars,
                   g_curl_handle, g_curl_mutex, dispatch_vars,
                   server_response, server_http_status, history_vars,
                   input_json, stdout_out>>

\* No backoff is in progress
NoBackoff ==
    /\ retry_delay_ms = 0
    /\ rand_value = 0

\* A thread that is not calling the dispatcher
\* handle is the thread's reusable_curl_handle: "none" (not read yet, or
\* NULL), "live" (the pooled handle) or "destroyed" (a handle that
\* curl_easy_cleanup has freed since)
IdleThread ==
    [pc |-> "idle", server_idx |-> 0, attempt |-> 0, max_attempts |-> 0,
     handle |-> "none"]
Threads == 1..MaxThreads

\* No other thread uses the dispatcher
NoThreads == threads = [t \in Threads |-> IdleThread]

\* A cchd_config_t nobody has created: every slot of server_urls is NULL
NoConfig ==
    [server_urls |-> [i \in 1..MAX_SERVERS |-> "null"],
     server_count |-> 0,
     double_free |-> FALSE]

\* A stdin nobody has read
NoReader ==
    [length |-> 0, regular |-> FALSE, nul |-> FALSE,
     total_size |-> 0, capacity |-> 0, terminated |-> FALSE]

\* Neither the loaders of the configuration nor the reader of stdin run
NoLoader == loaded = NoConfig /\ reader = NoReader

\* The state of main once DefaultInput has been read and transformed
Transformed ==
    /\ input_json = DefaultInput
    /\ protocol_json = cchd_transform_to_cloudevents(DefaultInput,
                                                     DefaultClock, 0)
    /\ stdout_out = << >>
    /\ counter = 0
    /\ built = <<EventId(DefaultClock, 0)>>

-----------------------------------------------------------------------------
(* The pipeline *)

Init ==
    /\ config \in [server_urls : ServerLists, fail_open : BOOLEAN,
                    json_output : {FALSE},
                    plain_output : {FALSE},
                    timeout_ms : {DEFAULT_TIMEOUT_MS}]
    /\ g_curl_handle \in {"NULL", "handle"}
    /\ g_curl_mutex = "unlocked"
    /\ pc = "main"
    /\ server_idx = 0
    /\ attempt = 0
    /\ max_attempts = 0
    /\ last_http_status = 0
    /\ server_response = EmptyBuffer
    /\ server_http_status = 0
    /\ program_exit_code = 0
    /\ modified_output_json = NullText
    /\ suppress_output = FALSE
    /\ stderr_out = << >>
    /\ sent = [e \in 1..MAX_SERVERS |-> 0]
    /\ kind = [e \in 1..MAX_SERVERS |-> "none"]
    /\ n200 = 0
    /\ nsleep = 0
    /\ answered = EmptyText
    /\ Transformed
    /\ NoBackoff
    /\ NoThreads
    /\ NoLoader

Next ==
    \/ SendEnter
    \/ NextServer
    \/ \E http_status \in PipelineStatuses :
         \E body \in BodiesFor(http_status) :
            Attempt(http_status, body, PipelineRands)
    \/ Process

Spec == Init /\ [][Next]_vars

-----------------------------------------------------------------------------
(* The interpreter on its own: cchd_process_server_response applied to every
   status, body and fail_open setting, with the out-parameters as main.c
   initialises them *)

InterpStatuses == {200, 399, 400, 499, 500, 599}

\* The buffer after one response with the given body
BufferOf(text) ==
    write_callback([EmptyBuffer EXCEPT
                      !.capacity = RESPONSE_BUFFER_INITIAL_SIZE], text)

InitInterp ==
    /\ config \in [server_urls : {<<SomeUrl>>}, fail_open : BOOLEAN,
                    json_output : {FALSE},
                    plain_output : {FALSE},
                    timeout_ms : {DEFAULT_TIMEOUT_MS}]
    /\ g_curl_handle = "handle"
    /\ g_curl_mutex = "unlocked"
    /\ pc = "interpret"
    /\ server_idx = 0
    /\ attempt = 0
    /\ max_attempts = 0
    /\ last_http_status = 0
    /\ server_response \in {BufferOf(t) : t \in AllTexts}
    /\ server_http_status \in InterpStatuses
    /\ program_exit_code = 0
    /\ modified_output_json = NullText
    /\ suppress_output = FALSE
    /\ stderr_out = << >>
    /\ sent = [e \in 1..MAX_SERVERS |-> 0]
    /\ kind = [e \in 1..MAX_SERVERS |-> "none"]
    /\ n200 = 0
    /\ nsleep = 0
    /\ answered = EmptyText
    /\ Transformed
    /\ NoBackoff
    /\ NoThreads
    /\ NoLoader

Interpret ==
    /\ pc = "interpret"
    /\ LET r == cchd_process_server_response(
                   CString(server_response), modified_output_json,
                   cchd_config_is_fail_open(config), suppress_output,
                   server_http_status)
       IN /\ program_exit_code' = r.exit_code
          /\ modified_output_json' = r.modified
          /\ suppress_output' = r.suppress
          /\ stderr_out' = stderr_out \o r.err
    /\ pc' = "interpreted"
    /\ UNCHANGED <<config, loader_vars, threads, backoff_vars,
                   g_curl_handle, g_curl_mutex, dispatch_vars,
                   server_response, server_http_status, history_vars,
                   main_vars>>

NextInterp == Interpret \/ Output

SpecInterp == InitInterp /\ [][NextInterp]_vars

-----------------------------------------------------------------------------
(* The whole of main, from the input on stdin to the output, with one
   endpoint *)

InitInput ==
    /\ config \in [server_urls : {<<SomeUrl>>}, fail_open : BOOLEAN,
                    json_output : BOOLEAN,
                    plain_output : BOOLEAN,
                    timeout_ms : {DEFAULT_TIMEOUT_MS}]
    /\ g_curl_handle = "handle"
    /\ g_curl_mutex = "unlocked"
    /\ pc = "start"
    /\ server_idx = 0
    /\ attempt = 0
    /\ max_attempts = 0
    /\ last_http_status = 0
    /\ server_response = EmptyBuffer
    /\ server_http_status = 0
    /\ program_exit_code = 0
    /\ modified_output_json = NullText
    /\ suppress_output = FALSE
    /\ stderr_out = << >>
    /\ sent = [e \in 1..MAX_SERVERS |-> 0]
    /\ kind = [e \in 1..MAX_SERVERS |-> "none"]
    /\ n200 = 0
    /\ nsleep = 0
    /\ answered = EmptyText
    /\ input_json \in Inputs
    /\ protocol_json = NoEnvelope
    /\ stdout_out = << >>
    /\ counter = 0
    /\ built = << >>
    /\ NoBackoff
    /\ NoThreads
    /\ NoLoader

NextInput ==
    \/ \E clock \in PipelineClocks : TransformInput(clock)
    \/ SendEnter
    \/ NextServer
    \/ \E http_status \in Statuses :
         \E body \in InputBodies(http_status) :
            Attempt(http_status, body, PipelineRands)
    \/ Process
    \/ Output

SpecInput == InitInput /\ [][NextInput]_vars

-----------------------------------------------------------------------------
(* Envelopes built one after the other in one process *)

InitIds ==
    /\ config \in [server_urls : {<<SomeUrl>>}, fail_open : {TRUE},
                    json_output : {FALSE},
                    plain_output : {FALSE},
                    timeout_ms : {DEFAULT_TIMEOUT_MS}]
    /\ g_curl_handle = "NULL"
    /\ g_curl_mutex = "unlocked"
    /\ pc = "build"
    /\ server_idx = 0
    /\ attempt = 0
    /\ max_attempts = 0
    /\ last_http_status = 0
    /\ server_response = EmptyBuffer
    /\ server_http_status = 0
    /\ program_exit_code = 0
    /\ modified_output_json = NullText
    /\ suppress_output = FALSE
    /\ stderr_out = << >>
    /\ sent = [e \in 1..MAX_SERVERS |-> 0]
    /\ kind = [e \in 1..MAX_SERVERS |-> "none"]
    /\ n200 = 0
    /\ nsleep = 0
    /\ answered = EmptyText
    /\ input_json = DefaultInput
    /\ protocol_json = NoEnvelope
    /\ stdout_out = << >>
    /\ counter = 0
    /\ built = << >>
    /\ NoBackoff
    /\ NoThreads
    /\ NoLoader

\* cchd_transform_to_cloudevents called once more
BuildEnvelope(clock) ==
    /\ pc = "build"
    /\ Len(built) < MaxBuilds
    /\ protocol_json' = cchd_transform_to_cloudevents(input_json, clock,
                                                      counter)
    /\ counter' = NextCounter(clock, counter)
    /\ built' = Append(built, EventId(clock, counter))
    /\ UNCHANGED <<config, loader_vars, threads, backoff_vars,
                   g_curl_handle, g_curl_mutex, pc, dispatch_vars,
                   server_response, server_http_status, result_vars,
                   history_vars, input_json, stdout_out>>

NextIds == \E clock \in ClockReadings : BuildEnvelope(clock)

SpecIds == InitIds /\ [][NextIds]_vars

-----------------------------------------------------------------------------
(* The dispatcher on its own: cchd_send_request_to_server with every timeout
   and every value of rand(), in fail-closed mode *)

DispatchLists == {[i \in 1..n |-> SomeUrl] : n \in 1..MaxEndpoints}
DispatchBodies(status) ==
    IF status = 200 THEN {EmptyText, ObjText(EmptyRoot)} ELSE {EmptyText}
\* with two more statuses that are neither 200 nor 4xx nor 5xx
DispatchStatuses == Statuses \cup {201, 204}

InitDispatch ==
    /\ config \in [server_urls : DispatchLists, fail_open : {FALSE},
                    json_output : {FALSE},
                    plain_output : {FALSE},
                    timeout_ms : Timeouts]
    /\ g_curl_handle = "handle"
    /\ g_curl_mutex = "unlocked"
    /\ pc = "main"
    /\ server_idx = 0
    /\ attempt = 0
    /\ max_attempts = 0
    /\ last_http_status = 0
    /\ server_response = EmptyBuffer
    /\ server_http_status = 0
    /\ program_exit_code = 0
    /\ modified_output_json = NullText
    /\ suppress_output = FALSE
    /\ stderr_out = << >>
    /\ sent = [e \in 1..MAX_SERVERS |-> 0]
    /\ kind = [e \in 1..MAX_SERVERS |-> "none"]
    /\ n200 = 0
    /\ nsleep = 0
    /\ answered = EmptyText
    /\ Transformed
    /\ NoBackoff
    /\ NoThreads
    /\ NoLoader

NextDispatch ==
    \/ SendEnter
    \/ NextServer
    \/ \E http_status \in DispatchStatuses :
         \E body \in DispatchBodies(http_status) :
            Attempt(http_status, body, DispatchRands)

SpecDispatch == InitDispatch /\ [][NextDispatch]_vars

\* The calling thread keeps running: a request ends within the timeout, a
\* sleep ends
SpecDispatchFair == SpecDispatch /\ WF_vars(NextDispatch)

-----------------------------------------------------------------------------
(* The dispatcher called from several threads of one process.  Each thread
   runs cchd_send_request_to_server with its own loop variables; the handle
   and its mutex are shared.  pthread_mutex_lock is a step that can be taken
   only while the mutex is unlocked. *)

ThreadLists == {<<SomeUrl>>, <<EmptyUrl, SomeUrl>>, <<SomeUrl, SomeUrl>>}
ThreadStatuses == {200, 404, 500, -CCHD_ERROR_CONNECTION, -CCHD_ERROR_TLS}

\* Mutant: giving an endpoint up releases the mutex as well
MutexAfter_BreakUnlocks(after) ==
    IF after \in {"return", "break"} THEN "unlocked" ELSE "locked"

\* Mutant: the return with a 200 leaves the mutex locked
MutexAfter_ReturnKeeps(after) == "locked"

\* http.c:345-346 and 383-392: of the ways an attempt ends only the return
\* releases the mutex
MutexAfter(after) == IF after = "return" THEN "unlocked" ELSE "locked"

InitThreads ==
    /\ config \in [server_urls : ThreadLists, fail_open : {FALSE},
                    json_output : {FALSE},
                    plain_output : {FALSE},
                    timeout_ms : {DEFAULT_TIMEOUT_MS}]
    /\ g_curl_handle \in {"NULL", "handle"}
    /\ g_curl_mutex = "unlocked"
    /\ pc = "library"
    /\ server_idx = 0
    /\ attempt = 0
    /\ max_attempts = 0
    /\ last_http_status = 0
    /\ server_response = EmptyBuffer
    /\ server_http_status = 0
    /\ program_exit_code = 0
    /\ modified_output_json = NullText
    /\ suppress_output = FALSE
    /\ stderr_out = << >>
    /\ sent = [e \in 1..MAX_SERVERS |-> 0]
    /\ kind = [e \in 1..MAX_SERVERS |-> "none"]
    /\ n200 = 0
    /\ nsleep = 0
    /\ answered = EmptyText
    /\ Transformed
    /\ NoBackoff
    /\ NoThreads
    /\ NoLoader

\* What a step of a thread leaves alone
ThreadFrame ==
    UNCHANGED <<config, loader_vars, pc, dispatch_vars, server_response,
                server_http_status, result_vars, history_vars, main_vars,
                backoff_vars>>

\* http.c:265-275 and 69-70: the call, up to the lock that
\* get_global_curl_handle takes
ThreadCall(t) ==
    /\ threads[t].pc = "idle"
    /\ IF cchd_config_get_server_count(config) = 0
         THEN /\ threads' = [threads EXCEPT ![t].pc = "returned"]
              /\ UNCHANGED g_curl_mutex
       ELSE /\ g_curl_mutex = "unlocked"
            /\ g_curl_mutex' = "locked"
            /\ threads' = [threads EXCEPT ![t].pc = "handle"]
    /\ UNCHANGED g_curl_handle
    /\ ThreadFrame

\* http.c:71-81 and 276-278: the handle is created if there is none
\* (curl_easy_init may fail), the mutex is released, and without a handle
\* the call returns
ThreadGotHandle(t) ==
    /\ threads[t].pc = "handle"
    /\ \E init_ok \in BOOLEAN :
         LET handle == IF g_curl_handle = "NULL" /\ init_ok THEN "handle"
                       ELSE g_curl_handle
         IN /\ g_curl_handle' = handle
            /\ threads' = [threads EXCEPT
                              ![t].pc = IF handle = "NULL" THEN "returned"
                                        ELSE "enter",
                              ![t].handle = IF handle = "NULL" THEN "none"
                                            ELSE "live"]
    /\ g_curl_mutex' = "unlocked"
    /\ ThreadFrame

\* http.c:80 and 275-280: the value get_global_curl_handle returns is read
\* after its unlock; without a handle the call returns, with one it takes
\* the mutex (pthread_mutex_lock)
ThreadLock(t) ==
    /\ threads[t].pc = "enter"
    /\ IF threads[t].handle = "none"
         THEN /\ threads' = [threads EXCEPT ![t].pc = "returned"]
              /\ UNCHANGED g_curl_mutex
       ELSE /\ g_curl_mutex = "unlocked"
            /\ g_curl_mutex' = "locked"
            /\ threads' = [threads EXCEPT ![t].pc = "server",
                                          ![t].server_idx = 0]
    /\ UNCHANGED g_curl_handle
    /\ ThreadFrame

\* http.c:291-311 and 411-412: the head of the server loop
ThreadNextServer(t) ==
    /\ threads[t].pc = "server"
    /\ LET th == threads[t]
       IN IF th.server_idx >= cchd_config_get_server_count(config)
            THEN /\ g_curl_mutex' = "unlocked"
                 /\ threads' = [threads EXCEPT ![t].pc = "returned"]
          ELSE IF cchd_config_get_server_url(config, th.server_idx) = EmptyUrl
            THEN /\ threads' = [threads EXCEPT
                                  ![t].server_idx = NextIndex(th.server_idx)]
                 /\ UNCHANGED g_curl_mutex
          ELSE /\ threads' = [threads EXCEPT
                                ![t].pc = "attempt", ![t].attempt = 0,
                                ![t].max_attempts = max_network_retries]
               /\ UNCHANGED g_curl_mutex
    /\ UNCHANGED g_curl_handle
    /\ ThreadFrame

\* http.c:313-401: one iteration of the attempt loop of a thread
ThreadAttempt(t, http_status) ==
    /\ threads[t].pc = "attempt"
    /\ threads[t].attempt < threads[t].max_attempts
    /\ LET th == threads[t]
           strategy == RetryStrategy(http_status, th.max_attempts)
           after == AfterAttempt(http_status, th.attempt, strategy)
       IN /\ g_curl_mutex' = MutexAfter(after)
          /\ threads' =
                IF after = "return"
                  THEN [threads EXCEPT ![t].pc = "returned",
                                       ![t].attempt = 0,
                                       ![t].max_attempts = 0]
                ELSE IF after = "break"
                  THEN [threads EXCEPT
                          ![t].pc = "server",
                          ![t].server_idx = NextIndex(th.server_idx),
                          ![t].attempt = 0, ![t].max_attempts = 0]
                ELSE [threads EXCEPT
                        ![t].attempt = th.attempt + 1,
                        ![t].max_attempts = strategy.max_attempts]
    /\ UNCHANGED g_curl_handle
    /\ ThreadFrame

\* The caller has the result and may call again
ThreadReturn(t) ==
    /\ threads[t].pc = "returned"
    /\ threads' = [threads EXCEPT ![t] = IdleThread]
    /\ UNCHANGED <<g_curl_handle, g_curl_mutex>>
    /\ ThreadFrame

NextThreads ==
    \E t \in Threads :
        \/ ThreadCall(t)
        \/ ThreadGotHandle(t)
        \/ ThreadLock(t)
        \/ ThreadNextServer(t)
        \/ \E http_status \in ThreadStatuses : ThreadAttempt(t, http_status)
        \/ ThreadReturn(t)

SpecThreads == InitThreads /\ [][NextThreads]_vars

\* http.c:251-259, cchd_http_cleanup called by another thread of the process:
\* under the mutex the pooled handle is destroyed and g_curl_handle set to
\* NULL.  A thread that has the pointer keeps it.  A thread between the
\* unlock of get_global_curl_handle and its read of g_curl_handle (http.c:79
\* and 80, a read without the mutex) has read the pointer already or reads
\* NULL afterwards; late is the set of those that read NULL.
Cleanup ==
    /\ g_curl_mutex = "unlocked"
    /\ g_curl_handle = "handle"
    /\ g_curl_handle' = "NULL"
    /\ \E late \in SUBSET {t \in Threads : threads[t].pc = "enter"} :
         threads' = [t \in Threads |->
                       IF t \in late
                         THEN [threads[t] EXCEPT !.handle = "none"]
                       ELSE IF threads[t].handle = "live"
                         THEN [threads[t] EXCEPT !.handle = "destroyed"]
                       ELSE threads[t]]
    /\ UNCHANGED g_curl_mutex
    /\ ThreadFrame

\* A request on a destroyed handle is undefined behaviour: it may go through
\* like any other (ThreadAttempt), or the process dies in libcurl
ThreadUseAfterFree(t) ==
    /\ threads[t].pc = "attempt"
    /\ threads[t].handle = "destroyed"
    /\ threads' = [s \in Threads |-> [threads[s] EXCEPT !.pc = "crashed"]]
    /\ UNCHANGED <<g_curl_handle, g_curl_mutex>>
    /\ ThreadFrame

NextCleanup ==
    \/ Cleanup
    \/ \E t \in Threads :
          \/ ThreadCall(t)
          \/ ThreadGotHandle(t)
          \/ ThreadLock(t)
          \/ ThreadNextServer(t)
          \/ \E http_status \in ThreadStatuses : ThreadAttempt(t, http_status)
          \/ ThreadUseAfterFree(t)
          \/ ThreadReturn(t)

SpecCleanup == InitThreads /\ [][NextCleanup]_vars

\* Every thread calling cchd_send_request_to_server once: the steps of one
\* call, its network calls all returning
ThreadStep(t) ==
    \/ ThreadCall(t)
    \/ ThreadGotHandle(t)
    \/ ThreadLock(t)
    \/ ThreadNextServer(t)
    \/ \E http_status \in ThreadStatuses : ThreadAttempt(t, http_status)

NextCalls == \E t \in Threads : ThreadStep(t)

SpecCalls == InitThreads /\ [][NextCalls]_vars

\* Every thread keeps running; pthread_mutex_lock returns once the mutex
\* stays free
SpecCallsFair == SpecCalls /\ \A t \in Threads : WF_vars(ThreadStep(t))

-----------------------------------------------------------------------------
(* cchd_calculate_retry_delay on its own, for every status, attempt index
   and value of rand() *)

InitDelay ==
    /\ config \in [server_urls : {<<SomeUrl>>}, fail_open : {TRUE},
                    json_output : {FALSE},
                    plain_output : {FALSE},
                    timeout_ms : {DEFAULT_TIMEOUT_MS}]
    /\ g_curl_handle = "NULL"
    /\ g_curl_mutex = "unlocked"
    /\ pc = "delay"
    /\ server_idx = 0
    /\ attempt \in 0..MaxAttemptIndex
    /\ max_attempts = 0
    /\ last_http_status \in DelayStatuses
    /\ server_response = EmptyBuffer
    /\ server_http_status = 0
    /\ program_exit_code = 0
    /\ modified_output_json = NullText
    /\ suppress_output = FALSE
    /\ stderr_out = << >>
    /\ sent = [e \in 1..MAX_SERVERS |-> 0]
    /\ kind = [e \in 1..MAX_SERVERS |-> "none"]
    /\ n200 = 0
    /\ nsleep = 0
    /\ answered = EmptyText
    /\ Transformed
    /\ NoBackoff
    /\ NoThreads
    /\ NoLoader

\* cchd_calculate_retry_delay(last_http_status, INITIAL_RETRY_DELAY_MS,
\* attempt), rand() returning rnd
CalculateDelay(rnd) ==
    /\ pc = "delay"
    /\ retry_delay_ms' = cchd_calculate_retry_delay(
                             last_http_status, INITIAL_RETRY_DELAY_MS, attempt,
                             rnd)
    /\ rand_value' = rnd
    /\ pc' = "delayed"
    /\ UNCHANGED <<config, loader_vars, threads, g_curl_handle,
                   g_curl_mutex,
                   dispatch_vars, server_response, server_http_status,
                   result_vars, history_vars, main_vars>>

NextDelay == \E rnd \in Rands : CalculateDelay(rnd)

SpecDelay == InitDelay /\ [][NextDelay]_vars

-----------------------------------------------------------------------------
(* cchd_calculate_retry_delay with the attempt indices at which the product
   of retry.c:31 leaves the range of int32_t *)

\* The small indices, the last index at which no seed overflows, the first
\* at which some and at which every seed does, and the largest shift of an
\* int
ShiftAttempts == (0..MaxAttemptIndex) \cup {22, 23, 24, 30}

InitShift ==
    /\ config \in [server_urls : {<<SomeUrl>>}, fail_open : {TRUE},
                    json_output : {FALSE},
                    plain_output : {FALSE},
                    timeout_ms : {DEFAULT_TIMEOUT_MS}]
    /\ g_curl_handle = "NULL"
    /\ g_curl_mutex = "unlocked"
    /\ pc = "delay"
    /\ server_idx = 0
    /\ attempt \in ShiftAttempts
    /\ max_attempts = 0
    /\ last_http_status \in DelayStatuses
    /\ server_response = EmptyBuffer
    /\ server_http_status = 0
    /\ program_exit_code = 0
    /\ modified_output_json = NullText
    /\ suppress_output = FALSE
    /\ stderr_out = << >>
    /\ sent = [e \in 1..MAX_SERVERS |-> 0]
    /\ kind = [e \in 1..MAX_SERVERS |-> "none"]
    /\ n200 = 0
    /\ nsleep = 0
    /\ answered = EmptyText
    /\ Transformed
    /\ NoBackoff
    /\ NoThreads
    /\ NoLoader

\* retry.c:31 overflows: 250 + rnd % 250 times 2^attempt is beyond INT32_MAX
ShiftOverflows(http_status, attempt_index, rnd) ==
    /\ -http_status \in {CCHD_ERROR_CONNECTION, CCHD_ERROR_DNS}
    /\ TimesPow2(Halves(250 + (rnd % 250)), attempt_index).ub

\* Signed overflow is undefined behaviour: a build without overflow checks
\* goes on with the low 32 bits (CalculateDelay), a build with them
\* (-ftrapv, -fsanitize=undefined) stops the process here
DelayTraps(rnd) ==
    /\ pc = "delay"
    /\ ShiftOverflows(last_http_status, attempt, rnd)
    /\ rand_value' = rnd
    /\ pc' = "trapped"
    /\ UNCHANGED <<config, loader_vars, threads, g_curl_handle,
                   g_curl_mutex,
                   dispatch_vars, server_response, server_http_status,
                   result_vars, history_vars, main_vars, retry_delay_ms>>

NextShift ==
    \E rnd \in Rands :
        \/ CalculateDelay(rnd)
        \/ DelayTraps(rnd)

SpecShift == InitShift /\ [][NextShift]_vars

-----------------------------------------------------------------------------
(* Vocabulary of the properties *)

ServerCount == Len(config.server_urls)
Endpoints == 1..ServerCount
NonEmptyUrl(e) == config.server_urls[e] # EmptyUrl
RequestsMade == \E e \in Endpoints : sent[e] > 0

\* The response the interpreter was given, and its root object
Response == CString(server_response)
Interpreted == pc = "interpreted"
ObjectResponse == Response.kind = "obj"
ContinueIsFalse == Response.root["continue"] = JFalse
DecisionIs(str) == Response.root["decision"] = JStr(str)
Hook == Response.root["hookSpecificOutput"]
NoHook == Hook = NULL
PreToolUseHook ==
    /\ Hook.t = "obj"
    /\ Hook.m["hookEventName"] = Leaf("str", "PreToolUse")
PermissionIs(str) == Hook.m["permissionDecision"] = Leaf("str", str)
NoPayload == modified_output_json = NullText

-----------------------------------------------------------------------------
(* Properties of the pipeline (specification Spec) *)

\* Every request made so far was answered with HTTP 500 (the one 5xx status
\* of Statuses), and there was at least one
Only500 ==
    /\ RequestsMade
    /\ \A e \in Endpoints : sent[e] > 0 => kind[e] = "server"

\* C1, as claimed: when every request to every endpoint returns HTTP 500, the
\* final exit code is 0 with fail_open and 1 without
C1_ExitOneWhenFailClosed ==
    (pc = "done" /\ Only500) =>
        program_exit_code = IF config.fail_open THEN 0 ELSE 1

\* C1, amended: when every request to every endpoint returns HTTP 500, the
\* final exit code is 0 with fail_open and 32 (AllServersFailed, the negated
\* return value of the dispatcher) without, whatever the number of endpoints
C1_ExitAllServersFailed ==
    (pc = "done" /\ Only500) =>
        program_exit_code =
            IF config.fail_open THEN 0 ELSE CCHD_ERROR_ALL_SERVERS_FAILED

C1_Witness ==
    /\ pc = "done" /\ Only500 /\ ~config.fail_open
    /\ ServerCount = 2 /\ sent[1] = 2 /\ sent[2] = 2
    /\ program_exit_code = 32

\* The case of C2: no URL is empty, every request to an endpoint before the
\* last failed at the network level, and the last endpoint answered 200
FailoverCase ==
    /\ \A e \in Endpoints : NonEmptyUrl(e)
    /\ \A e \in Endpoints :
         e < ServerCount => kind[e] \in {"none", "network"}
    /\ kind[ServerCount] = "ok"

\* C2: in that case the dispatcher returns 200 with the body of the last
\* endpoint, the last endpoint has received exactly one request and every
\* earlier endpoint was attempted; and at any time an endpoint that has
\* received a request has only attempted predecessors (list order)
C2_FailoverReachesLast ==
    /\ FailoverCase =>
          /\ server_http_status = 200
          /\ sent[ServerCount] = 1
          /\ \A e \in Endpoints : sent[e] >= 1
          /\ pc = "returned" => Response = answered
          /\ pc \in {"returned", "done"}
    /\ (\A e \in Endpoints : NonEmptyUrl(e)) =>
          \A e \in Endpoints :
              sent[e] > 0 => \A j \in 1..(e - 1) : sent[j] > 0

C2_Witness ==
    /\ pc = "returned" /\ FailoverCase /\ ServerCount = 3
    /\ sent = [e \in 1..MAX_SERVERS |->
                 IF e <= 2 THEN 3 ELSE IF e = 3 THEN 1 ELSE 0]
    /\ server_http_status = 200
    /\ Response = ObjText(BlockRoot)

\* The call went past its argument and handle checks
ValidCall == ServerCount > 0 /\ g_curl_handle = "handle"

\* C9: a valid call returns AllServersFailed exactly when no attempt returned
\* 200, and then every endpoint with a non-empty URL has been attempted
C9_ExhaustionOnlyAfterAll ==
    (pc \in {"returned", "done"} /\ ValidCall) =>
        /\ (server_http_status = -CCHD_ERROR_ALL_SERVERS_FAILED) <=> (n200 = 0)
        /\ server_http_status = -CCHD_ERROR_ALL_SERVERS_FAILED =>
             \A e \in Endpoints : NonEmptyUrl(e) => sent[e] >= 1

C9_Witness ==
    /\ pc = "returned" /\ ValidCall
    /\ server_http_status = -32 /\ n200 = 0
    /\ ServerCount = 3 /\ ~NonEmptyUrl(2)
    /\ sent[1] = 1 /\ sent[2] = 0 /\ sent[3] = 3

\* The statuses C10 is about
Abandoning(status) ==
    \/ status \in {-CCHD_ERROR_INVALID_URL, -CCHD_ERROR_TLS}
    \/ status >= 400 /\ status < 500 /\ status # 429

\* C10: requests go to the endpoint under server_idx only, server_idx never
\* decreases, and an attempt that ends with a malformed-URL error, a TLS
\* error or a 4xx other than 429 moves server_idx past its endpoint; so that
\* endpoint gets no further request and the next one (or exhaustion) follows
C10_AbandonWithoutRetry ==
    [][/\ \A e \in 1..MAX_SERVERS :
            sent'[e] # sent[e] =>
                /\ pc = "attempt" /\ e = server_idx + 1
                /\ sent'[e] = sent[e] + 1
                /\ Abandoning(last_http_status') =>
                      pc' = "server" /\ server_idx' = server_idx + 1
       /\ server_idx' >= server_idx
       /\ pc = "server" /\ pc' = "attempt" =>
            /\ server_idx' = server_idx
            /\ sent[server_idx + 1] = 0]_vars

C10_Witness ==
    /\ ServerCount >= 2
    /\ kind[1] \in {"fatal", "client"} /\ sent[1] = 1
    /\ sent[2] >= 1

\* The dispatcher is done with endpoint e
Left(e) == server_idx >= e

\* C11: an endpoint whose every attempt failed at the network level gets
\* exactly 3 requests, and one whose every attempt returned 5xx or 429 (in any
\* blend) exactly 2, before the dispatcher leaves it; never more meanwhile
C11_RetryBudgets ==
    \A e \in Endpoints :
        /\ kind[e] = "network" =>
              /\ sent[e] <= 3
              /\ Left(e) => sent[e] = 3
        /\ kind[e] \in {"server", "rate", "throttled"} =>
              /\ sent[e] <= 2
              /\ Left(e) => sent[e] = 2

C11_Witness ==
    /\ ServerCount = 2 /\ Left(2)
    /\ kind[1] = "network" /\ sent[1] = 3
    /\ kind[2] = "throttled" /\ sent[2] = 2

\* C12: a request goes to the endpoint under server_idx while the handle is
\* locked, when no endpoint further down the list has had a request; one
\* step issues at most one request; server_idx never decreases
C12_ListOrder ==
    [][/\ sent' # sent =>
            LET e == server_idx + 1
            IN /\ g_curl_mutex = "locked"
               /\ sent' = [sent EXCEPT ![e] = @ + 1]
               /\ \A j \in (e + 1)..MAX_SERVERS : sent[j] = 0
       /\ server_idx' >= server_idx]_vars

C12_Witness ==
    /\ ServerCount = 3
    /\ sent[1] = 2 /\ sent[2] = 1 /\ sent[3] = 3
    /\ kind[1] = "rate" /\ kind[2] = "client" /\ kind[3] = "mixed"

\* C13: the exit code, the payload and the suppress flag are set in one step
\* only, after the dispatcher has returned, and never again; when it returned
\* 200 they are what the interpreter makes of the body of the latest attempt
\* (the one that returned 200) alone
C13_OneDecision ==
    [][/\ result_vars' # result_vars => pc = "returned"
       /\ pc = "returned" => pc' = "done"
       /\ pc = "done" => pc' = "done"
       /\ (pc = "returned" /\ server_http_status = 200
             /\ ~DataIsNull(server_response)) =>
            LET r == cchd_process_server_response(
                         answered, NullText, config.fail_open, FALSE, 200)
            IN /\ n200 = 1
               /\ program_exit_code' = r.exit_code
               /\ modified_output_json' = r.modified
               /\ suppress_output' = r.suppress
               /\ stderr_out' = r.err]_vars

C13_Witness ==
    /\ pc = "done" /\ ServerCount = 1 /\ sent[1] = 2 /\ kind[1] = "mixed"
    /\ server_http_status = 200 /\ nsleep = 1
    /\ answered = ObjText(BlockRoot)
    /\ program_exit_code = 1 /\ NoPayload

\* The dispatcher returned 200 and the body of that answer is a JSON object
\* whose "continue" is not the boolean false
UsableAnswer ==
    /\ server_http_status = 200 /\ n200 >= 1
    /\ answered.kind = "obj"
    /\ answered.root["continue"] # JFalse

\* C28: without fail_open the exit code is 0 only if an endpoint answered 200
\* with a body that is a JSON object whose continue is not false; a transport
\* failure, an error status and an empty, unparseable or non-object body all
\* give a non-zero exit code
C28_FailClosedAllowsOnlyOnAnswer ==
    (pc = "done" /\ ~config.fail_open) =>
        /\ program_exit_code = 0 => UsableAnswer
        /\ server_http_status # 200 => program_exit_code # 0
        /\ answered.kind \in {"empty", "garbage", "nonobj"} =>
              program_exit_code # 0

C28_Witness ==
    /\ pc = "done" /\ ~config.fail_open /\ ServerCount = 2
    /\ kind[1] = "network" /\ sent[1] = 3 /\ kind[2] = "ok"
    /\ UsableAnswer /\ program_exit_code = 0

\* The dispatcher is between its lock and its return
Dispatching == pc \in {"server", "attempt"}

\* The buffer holds the given body and nothing else
HoldsOnly(buf, body) ==
    /\ buf.size = TextLen(body)
    /\ CString(buf) = body

\* C31: during a dispatch the capacity of the response buffer never
\* decreases; when an attempt is to be followed by another attempt at the same
\* endpoint the buffer is empty (size 0) before it, and after an attempt that
\* ends the stay at an endpoint, the first of the dispatch or not, the buffer
\* holds the bytes of that attempt only, so the body returned with a 200 is
\* that of the final attempt
C31_ResetKeepsAllocation ==
    [][Dispatching =>
         /\ server_response'.capacity >= server_response.capacity
         /\ sent' # sent =>
               /\ pc' = "attempt" =>
                     server_response'.size = 0 /\ server_response'.data = << >>
               /\ pc' # "attempt" => HoldsOnly(server_response', answered')
               /\ (pc' = "returned") = (server_http_status' = 200
                                          /\ last_http_status' = 200)]_vars

C31_Witness ==
    /\ pc = "returned" /\ server_http_status = 200
    /\ ServerCount = 2 /\ sent[1] = 3 /\ sent[2] = 2
    /\ kind[1] = "network" /\ kind[2] = "mixed"
    /\ answered = ObjText(AskRoot)
    /\ HoldsOnly(server_response, answered)
    /\ server_response.capacity = TextLen(answered) + 1

-----------------------------------------------------------------------------
(* Properties of the interpreter (specification SpecInterp) *)

\* The body is interpreted: the status passes both status gates
BodyRead == Interpreted /\ server_http_status < 400
\* An object response whose "continue" is not the boolean false
ContinuingObject == BodyRead /\ ObjectResponse /\ ~ContinueIsFalse

\* C3: an object response with "continue": false gives exit code 1 whatever
\* else it carries, with no modified payload and suppress_output false (for
\* every status below 500; from 500 on the body is not looked at, see C7)
C3_ContinueFalseStops ==
    (Interpreted /\ server_http_status < 500 /\ ObjectResponse
       /\ ContinueIsFalse) =>
        /\ program_exit_code = 1
        /\ NoPayload
        /\ suppress_output = FALSE

C3_Witness ==
    /\ BodyRead /\ ObjectResponse /\ ContinueIsFalse
    /\ DecisionIs("modify")
    /\ Response.root["modified_data"] = JObj
    /\ Response.root["suppressOutput"] = JTrue
    /\ PreToolUseHook /\ PermissionIs("allow")
    /\ program_exit_code = 1

\* The exit code the claims give for a permissionDecision
PermissionCode(str) ==
    IF str = "deny" THEN 1 ELSE IF str = "allow" THEN 0 ELSE 2

\* C4: with a top-level decision and a PreToolUse hookSpecificOutput whose
\* permissionDecision is deny, allow or ask, the exit code is the one of the
\* permissionDecision, not the one of the decision
C4_HookOverridesDecision ==
    \A perm \in {"deny", "allow", "ask"} :
        (ContinuingObject /\ Response.root["decision"] # NULL
           /\ PreToolUseHook /\ PermissionIs(perm)) =>
            program_exit_code = PermissionCode(perm)

C4_Witness ==
    /\ ContinuingObject /\ DecisionIs("block")
    /\ PreToolUseHook /\ PermissionIs("allow")
    /\ program_exit_code = 0

\* The exit code after the top-level decision, before hookSpecificOutput
DecisionExitCode ==
    LET decision == parse_decision(Response.root)
    IN IF decision = NullText \/ decision = "modify" THEN 0
       ELSE handle_decision(decision, Response.root, 0).exit_code

\* C5: a PreToolUse hookSpecificOutput maps deny, allow, ask to 1, 0, 2; with
\* any other or no hookEventName, or any other permissionDecision, the exit
\* code is what the top-level decision made it
C5_HookMapping ==
    ContinuingObject =>
        /\ \A perm \in {"deny", "allow", "ask"} :
              (PreToolUseHook /\ PermissionIs(perm)) =>
                  program_exit_code = PermissionCode(perm)
        /\ (Hook.t = "obj" /\ ~(PreToolUseHook
               /\ \E perm \in {"deny", "allow", "ask"} : PermissionIs(perm)))
              => program_exit_code = DecisionExitCode

C5_Witness ==
    /\ ContinuingObject /\ DecisionIs("block")
    /\ Hook.t = "obj"
    /\ Hook.m["hookEventName"] = Leaf("str", "PostToolUse")
    /\ PermissionIs("allow")
    /\ program_exit_code = 1

\* C6: without hookSpecificOutput, "block" gives 1 and "approve"/"allow" give
\* 0, no payload is produced even with modified_data present, and
\* suppress_output is true exactly when suppressOutput is the boolean true
C6_DecisionMapping ==
    (ContinuingObject /\ NoHook) =>
        /\ DecisionIs("block") => program_exit_code = 1
        /\ (DecisionIs("approve") \/ DecisionIs("allow")) =>
              program_exit_code = 0
        /\ (DecisionIs("block") \/ DecisionIs("approve")
              \/ DecisionIs("allow")) =>
              /\ NoPayload
              /\ suppress_output = (Response.root["suppressOutput"] = JTrue)

C6_Witness ==
    /\ ContinuingObject /\ NoHook /\ DecisionIs("block")
    /\ Response.root["modified_data"] = JObj
    /\ Response.root["suppressOutput"] = NULL
    /\ program_exit_code = 1 /\ NoPayload /\ ~suppress_output

\* C7: a status of 500 or more with any body, and a status below 400 with an
\* empty, unparseable or non-object body, give exit code 0 with fail_open
\* and 1 without, no modified payload and suppress_output not set
C7_FailOpenSwitch ==
    (Interpreted
       /\ \/ server_http_status >= 500
          \/ server_http_status < 400 /\ ~ObjectResponse) =>
        /\ program_exit_code = IF config.fail_open THEN 0 ELSE 1
        /\ NoPayload
        /\ suppress_output = FALSE

C7_Witness ==
    /\ Interpreted /\ server_http_status = 200
    /\ Response = NonObjText
    /\ config.fail_open /\ program_exit_code = 0

\* C8, as claimed: a status in 400..499 gives exit code 1 for every body,
\* the empty one included, and either fail_open
C8_ClientErrorBlocks ==
    (Interpreted /\ server_http_status >= 400 /\ server_http_status < 500)
        => program_exit_code = 1

\* The interpreter's results for the response with one member replaced
With(key, val) ==
    cchd_process_server_response(
        [Response EXCEPT !.root[key] = val], NullText, config.fail_open,
        FALSE, server_http_status)

\* The run is over: the interpreter has run and the output is written
Exited == pc = "exited"
BodyWasRead == pc \in {"interpreted", "exited"} /\ server_http_status < 400

\* C18, as claimed: a response with its decision string under "action" and no
\* "decision" gives the exit code and the payload of the same response with
\* the string under "decision"
C18_ActionAlias ==
    (ContinuingObject /\ Response.root["decision"] = NULL
       /\ Response.root["action"] # NULL) =>
        LET r == With("decision", Response.root["action"])
        IN /\ program_exit_code = r.exit_code
           /\ modified_output_json = r.modified

\* The exit code a hookSpecificOutput leaves when the decision left code
HookOverride(code) ==
    IF PreToolUseHook /\ \E perm \in {"deny", "allow", "ask"} :
                            PermissionIs(perm)
      THEN PermissionCode(Hook.m["permissionDecision"].v)
      ELSE code

ExitCodeIgnoresSuppress ==
    \A s \in SuppressVals :
        With("suppressOutput", s).exit_code = program_exit_code

\* C20, as claimed: for every object response received with 200,
\* suppress_output is true exactly when suppressOutput is the boolean true,
\* whatever the other fields, and the exit code does not depend on
\* suppressOutput
C20_SuppressVerbatim ==
    (Interpreted /\ server_http_status = 200 /\ ObjectResponse) =>
        /\ suppress_output = (Response.root["suppressOutput"] = JTrue)
        /\ ExitCodeIgnoresSuppress

\* C20, amended: for every object response received with 200 whose continue
\* is not false, suppress_output is true exactly when suppressOutput is the
\* boolean true; with continue false it is false; the exit code does not
\* depend on suppressOutput in either case
C20_SuppressUnlessStopped ==
    (Interpreted /\ server_http_status = 200 /\ ObjectResponse) =>
        /\ suppress_output =
              (~ContinueIsFalse /\ Response.root["suppressOutput"] = JTrue)
        /\ ExitCodeIgnoresSuppress

C20_Witness ==
    /\ Interpreted /\ server_http_status = 200 /\ ObjectResponse
    /\ ~ContinueIsFalse /\ Response.root["suppressOutput"] = JTrue
    /\ DecisionIs("block") /\ PreToolUseHook /\ PermissionIs("ask")
    /\ suppress_output /\ program_exit_code = 2

\* The decision strings the interpreter knows
KnownDecisions == {"block", "approve", "allow", "modify"}
DecisionMember == Response.root["decision"]

\* C36: for an object response with continue not false and without
\* hookSpecificOutput, a decision that is a non-empty string other than
\* block, approve, allow and modify, or that is present and not a string,
\* leaves the exit code at 0, and the empty string as decision gives 1
C36_UnknownDecisionAllows ==
    (ContinuingObject /\ NoHook) =>
        /\ (/\ yyjson_is_str(DecisionMember)
            /\ yyjson_get_str(DecisionMember) \notin KnownDecisions \cup {""})
              => program_exit_code = 0
        /\ (DecisionMember # NULL /\ ~yyjson_is_str(DecisionMember))
              => program_exit_code = 0
        /\ DecisionMember = JStr("") => program_exit_code = 1

C36_Witness ==
    /\ ContinuingObject /\ NoHook /\ server_http_status = 200
    /\ DecisionMember = JStr("continue")
    /\ Response.root["modified_data"] = JObj
    /\ program_exit_code = 0 /\ NoPayload

\* What a reason member can be replaced by: absent, another string, a number
ReasonAlternatives == {<<"none", "">>, <<"str", "other">>, <<"num", "1">>}

\* The response with its three reason members replaced
WithReasons(reason, stop, why) ==
    LET root == Response.root
        hook == root["hookSpecificOutput"]
    IN [Response EXCEPT
          !.root = [root EXCEPT
             !["reason"] = JVal(reason[1], reason[2]),
             !["stopReason"] = JVal(stop[1], stop[2]),
             !["hookSpecificOutput"] =
                 IF yyjson_is_obj(hook)
                   THEN [hook EXCEPT !.m["permissionDecisionReason"] =
                                         Leaf(why[1], why[2])]
                   ELSE hook]]

\* The interpreter's results for a response, called as Interpret calls it
Reinterpreted(text) ==
    cchd_process_server_response(text, NullText,
                                 cchd_config_is_fail_open(config), FALSE,
                                 server_http_status)

\* C27: two object responses that differ only in the value or the presence
\* of reason, stopReason and permissionDecisionReason give the same exit
\* code, the same modified payload and the same suppress flag
C27_ReasonsDoNotDecide ==
    (Interpreted /\ ObjectResponse) =>
        \A reason, stop, why \in ReasonAlternatives :
            LET other == Reinterpreted(WithReasons(reason, stop, why))
            IN /\ other.exit_code = program_exit_code
               /\ other.modified = modified_output_json
               /\ other.suppress = suppress_output

C27_Witness ==
    /\ Interpreted /\ server_http_status = 200 /\ ObjectResponse
    /\ DecisionIs("block") /\ Response.root["reason"] = JStr("why")
    /\ NoHook /\ ~ContinueIsFalse
    /\ program_exit_code = 1
    /\ stderr_out = <<Line("Blocked", "why")>>
    /\ Reinterpreted(WithReasons(<<"none", "">>, <<"none", "">>,
                                 <<"none", "">>)).err = << >>

-----------------------------------------------------------------------------
(* Properties of main from input to output (specification SpecInput) *)

InputIsObject == input_json.kind = "obj"
EventName == input_json.root["hook_event_name"]
SessionId == input_json.root["session_id"]
NothingSent ==
    /\ ~RequestsMade /\ n200 = 0
    /\ g_curl_mutex = "unlocked"
    /\ protocol_json = NoEnvelope

\* C14: an input object whose hook_event_name or session_id is missing or is
\* not a string never gets past the transformation: the run ends with exit
\* code InvalidHook, no envelope is built and no request is sent
C14_InvalidFieldsAbort ==
    (InputIsObject
       /\ (~yyjson_is_str(EventName) \/ ~yyjson_is_str(SessionId))) =>
        /\ pc \in {"start", "aborted"}
        /\ NothingSent
        /\ built = << >>
        /\ pc = "aborted" =>
              /\ program_exit_code = CCHD_ERROR_INVALID_HOOK
              /\ stdout_out = << >>

C14_Witness ==
    /\ pc = "aborted" /\ InputIsObject
    /\ EventName = JStr("PreToolUse") /\ SessionId = JNum
    /\ program_exit_code = 6 /\ NothingSent

\* C15, as claimed: every input that passes validation, whatever its event
\* name and the length of its fields, gets an envelope whose data member
\* equals the input document
C15_EnvelopeForValid ==
    (pc # "start" /\ cchd_validate_hook_event_fields(input_json, config).ok)
        => /\ protocol_json.kind = "envelope"
           /\ protocol_json.data = input_json.root

\* C16, as claimed: an input whose hook_event_name or session_id is the empty
\* string is rejected with a validation error, and is neither transformed nor
\* dispatched
C16_EmptyStringRejected ==
    (pc # "start" /\ InputIsObject
       /\ (EventName = JStr("") \/ SessionId = JStr(""))) =>
        /\ pc = "aborted"
        /\ program_exit_code = CCHD_ERROR_INVALID_HOOK
        /\ NothingSent

\* What cchd_handle_output wrote, if it wrote one line
Echoed(what) == Len(stdout_out) = 1 /\ stdout_out[1].what = what

-----------------------------------------------------------------------------
(* Properties of the envelope ids (specification SpecIds) *)

\* C17, as claimed: any two envelopes built in one process have different
\* ids, whatever the clock readings of the two builds
C17_DistinctIds ==
    \A i \in DOMAIN built : \A j \in DOMAIN built :
        i # j => built[i] # built[j]

-----------------------------------------------------------------------------
(* Properties of the backoff policy (specification SpecDelay) *)

Delayed == pc = "delayed"
Min(a, b) == IF a < b THEN a ELSE b

\* The failure classes described as doubling, with the jittered base and the
\* cap of each
Doubling(status) ==
    status \in {-CCHD_ERROR_CONNECTION, -CCHD_ERROR_DNS, -CCHD_ERROR_TIMEOUT,
                -CCHD_ERROR_NETWORK, 429}
SeedOf(status, rnd) ==
    IF status \in {-CCHD_ERROR_CONNECTION, -CCHD_ERROR_DNS}
      THEN 250 + (rnd % 250)
    ELSE IF status = -CCHD_ERROR_TIMEOUT THEN 1000 + (rnd % 500)
    ELSE IF status = -CCHD_ERROR_NETWORK THEN 500 + (rnd % 500)
    ELSE 5000 + (rnd % 2000)
CapOf(status) ==
    IF status = -CCHD_ERROR_TIMEOUT THEN 5000
    ELSE IF status = 429 THEN 30000
    ELSE 3000

\* C24: for a connection, DNS, timeout or generic network failure and for
\* HTTP 429, at every attempt index k the delay is min(cap, seed * 2^k), seed
\* being the jittered base of the class
C24_DoublingPerAttempt ==
    (Delayed /\ Doubling(last_http_status)) =>
        retry_delay_ms = Min(CapOf(last_http_status),
                             SeedOf(last_http_status, rand_value)
                               * Pow2(attempt))

\* C25: for a DNS or connection failure at attempt index 1 the delay lies
\* within 250..3000 ms and is twice the seed 250 + jitter, jitter below 250
C25_DnsSecondAttempt ==
    (/\ Delayed
     /\ last_http_status \in {-CCHD_ERROR_DNS, -CCHD_ERROR_CONNECTION}
     /\ attempt = 1) =>
        /\ retry_delay_ms >= 250 /\ retry_delay_ms <= 3000
        /\ \E seed \in 250..499 :
              /\ seed = 250 + (rand_value % 250)
              /\ retry_delay_ms = 2 * seed

C25_Witness ==
    /\ Delayed /\ last_http_status = -CCHD_ERROR_DNS /\ attempt = 1
    /\ rand_value = 1999 /\ retry_delay_ms = 998

\* C26: the delay is 0 after a network error, grows exponentially with the
\* attempt index after a server error, and is -1 once the attempt index has
\* reached the retry limit
C26_HeaderContract ==
    Delayed =>
        /\ last_http_status < 0 => retry_delay_ms = 0
        /\ (last_http_status >= 500 /\ last_http_status < 600
               /\ attempt < max_server_error_retries) =>
              retry_delay_ms = Min(10000, (1000 + (rand_value % 500))
                                            * Pow2(attempt))
        /\ attempt >= max_network_retries => retry_delay_ms = -1

-----------------------------------------------------------------------------
(* Properties of the backoff policy at large attempt indices (specification
   SpecShift) *)

\* The failure classes of the backoff policy, the least seed and the cap of
\* each
FailureClass(status) ==
    status < 0 \/ (status >= 500 /\ status < 600) \/ status = 429
LeastSeed(status) ==
    IF status \in {-CCHD_ERROR_CONNECTION, -CCHD_ERROR_DNS} THEN 250
    ELSE IF status = -CCHD_ERROR_TIMEOUT THEN 1000
    ELSE IF status < 0 THEN 500
    ELSE IF status = 429 THEN 5000
    ELSE 1000
ClassCap(status) ==
    IF status = -CCHD_ERROR_TIMEOUT THEN 5000
    ELSE IF status < 0 THEN 3000
    ELSE IF status = 429 THEN 30000
    ELSE 10000

\* C35: for every failure class, attempt index and jitter the delay that
\* cchd_calculate_retry_delay returns is at least the least seed of the
\* class and at most its cap
C35_DelayBetweenSeedAndCap ==
    (Delayed /\ FailureClass(last_http_status)) =>
        /\ retry_delay_ms >= LeastSeed(last_http_status)
        /\ retry_delay_ms <= ClassCap(last_http_status)

-----------------------------------------------------------------------------
(* Properties of the dispatcher on its own (specifications SpecDispatch and
   SpecDispatchFair) *)

\* A backoff sleep has been made and the re-attempt is to come
Slept == pc = "attempt" /\ attempt > 0

\* C23: every backoff sleep lasts no longer than the configured timeout
C23_SleepWithinTimeout ==
    Slept => retry_delay_ms <= cchd_config_get_timeout_ms(config)

RECURSIVE RetriesUpTo(_)
RetriesUpTo(e) ==
    IF e = 0 THEN 0
    ELSE RetriesUpTo(e - 1) + (IF sent[e] > 0 THEN sent[e] - 1 ELSE 0)
\* The number of requests so far that were not the first to their endpoint
Retries == RetriesUpTo(ServerCount)

\* C29: no endpoint gets more than 3 requests, the requests number at most 3
\* per configured endpoint, a call that has returned has returned 200 or a
\* negative code, and every call returns
C29_Bounds ==
    /\ \A e \in 1..MAX_SERVERS : sent[e] <= 3
    /\ Retries + Cardinality({e \in Endpoints : sent[e] > 0})
          <= 3 * ServerCount
    /\ pc = "returned" =>
          server_http_status = 200 \/ server_http_status < 0
C29_BoundedDispatch == []C29_Bounds /\ <>(pc = "returned")

C29_Witness ==
    /\ pc = "returned" /\ server_http_status = -CCHD_ERROR_ALL_SERVERS_FAILED
    /\ ServerCount = 2
    /\ kind[1] = "mixed" /\ sent[1] = 3
    /\ kind[2] = "mixed" /\ sent[2] = 3

\* C30: a step sleeps at most once, and it sleeps exactly when its request
\* is to be followed by another one to the same endpoint; the delay is then
\* the one of the status just received (the latest of that endpoint) and of
\* the index of the attempt just made, attempt - 1 for the attempt to come;
\* the first attempt at an endpoint follows no sleep; and the sleeps so far
\* are one per re-attempt made or due
C30_SleepBeforeRetry ==
    [][LET e == server_idx + 1
       IN /\ nsleep' # nsleep <=>
                (sent' # sent /\ pc' = "attempt" /\ server_idx' = server_idx)
          /\ nsleep' # nsleep =>
                /\ nsleep' = nsleep + 1
                /\ attempt' = sent'[e]
                /\ kind'[e] = MergeKind(kind[e], ClassOf(last_http_status'))
                /\ retry_delay_ms' =
                      cchd_calculate_retry_delay(
                          last_http_status', INITIAL_RETRY_DELAY_MS,
                          attempt' - 1, rand_value')
          /\ (pc = "server" /\ pc' = "attempt") =>
                nsleep' = nsleep /\ retry_delay_ms' = 0 /\ attempt' = 0
          /\ nsleep = Retries + (IF Slept THEN 1 ELSE 0)]_vars

C30_Witness ==
    /\ Slept /\ server_idx = 1 /\ attempt = 2 /\ nsleep = 3
    /\ sent[1] = 2 /\ sent[2] = 2
    /\ last_http_status = -CCHD_ERROR_DNS /\ rand_value = 1999
    /\ retry_delay_ms = 998

\* An HTTP status that is neither 200 nor 4xx nor 5xx
Unclassified(status) ==
    /\ status > 0 /\ status # 200
    /\ ~(status >= 400 /\ status < 600)

\* C32: an attempt answered with a status that is neither 200 nor 4xx nor 5xx
\* ends the stay at its endpoint without a retry and without a sleep (the
\* dispatcher goes on to the next endpoint), and the dispatcher returns 200
\* or a negative error code only
C32_OtherStatusAbandons ==
    [][/\ (sent' # sent /\ Unclassified(last_http_status')) =>
            /\ pc' = "server" /\ server_idx' = server_idx + 1
            /\ nsleep' = nsleep
            /\ sent'[server_idx + 1] = sent[server_idx + 1] + 1
       /\ pc' = "returned" =>
            (server_http_status' = 200 \/ server_http_status' < 0)]_vars

C32_Witness ==
    /\ pc = "server" /\ ServerCount = 2 /\ server_idx = 2
    /\ sent[1] = 1 /\ sent[2] = 1
    /\ kind[1] = "other" /\ kind[2] = "other"
    /\ last_http_status = 204
    /\ nsleep = 0

-----------------------------------------------------------------------------
(* Properties of the dispatcher under threads (specification SpecThreads) *)

\* Thread t is between a pthread_mutex_lock and the matching unlock
Holding(t) == threads[t].pc \in {"handle", "server", "attempt"}
Holders == {t \in Threads : Holding(t)}

\* C22: at most one thread at a time is between acquiring and releasing the
\* mutex of the handle, and the mutex is locked exactly while one is; so the
\* resets, the configuration and the requests on the handle never overlap
C22_MutualExclusion ==
    /\ Cardinality(Holders) <= 1
    /\ (g_curl_mutex = "locked") <=> (Holders # {})

C22_Witness ==
    /\ threads[1].pc = "attempt" /\ threads[1].attempt = 1
    /\ threads[1].server_idx = 1
    /\ threads[2].pc = "enter"
    /\ g_curl_mutex = "locked"

-----------------------------------------------------------------------------
(* Properties of concurrent single calls (specification SpecCallsFair) *)

Returned(t) == threads[t].pc = "returned"

\* No thread is inside a call that has taken the mutex
NobodyInside == \A t \in Threads : threads[t].pc \in {"idle", "enter", "returned"}

\* C33: a call leaves the mutex unlocked on each of its return paths, so the
\* mutex is free whenever no call is between a lock and its return, and with
\* every network call returning every caller gets the lock and its call
\* returns
C33_NoDeadlock ==
    /\ [](NobodyInside => g_curl_mutex = "unlocked")
    /\ <>(\A t \in Threads : Returned(t))

C33_Witness ==
    /\ \A t \in Threads : Returned(t)
    /\ g_curl_mutex = "unlocked" /\ g_curl_handle = "handle"
    /\ ServerCount = 2

-----------------------------------------------------------------------------
(* Properties of the dispatcher beside cchd_http_cleanup (specification
   SpecCleanup) *)

\* Thread t is in its attempt loop: its next step resets the handle it holds
\* or performs a request on it
UsesHandle(t) == threads[t].pc = "attempt"

\* C34, as claimed: a thread in the attempt loop never holds a handle that
\* cchd_http_cleanup has destroyed
C34_NoUseAfterCleanup ==
    \A t \in Threads : UsesHandle(t) => threads[t].handle # "destroyed"

-----------------------------------------------------------------------------
(* config.c: the loaders of the endpoint list (specification SpecConfig) *)

\* A slot of server_urls is "null" (calloc's zero), "live" (it points to a
\* string strdup made) or "freed" (it still points to a string free was
\* given).  double_free records that free was given a "freed" slot.
ServerSlots == 1..MAX_SERVERS

\* free(p): nothing for NULL, and the pointer keeps its value
free(slot) == IF slot = "live" THEN "freed" ELSE slot

\* cchd_config_create: slot 0 holds a copy of DEFAULT_SERVER_URL
cchd_config_create ==
    [server_urls |-> [i \in ServerSlots |-> IF i = 1 THEN "live" ELSE "null"],
     server_count |-> 1,
     double_free |-> FALSE]

\* "Clear existing servers": free the slots below server_count, then zero
\* the count; the slots are not set to NULL
ClearServers(c) ==
    [c EXCEPT
       !.server_urls = [i \in ServerSlots |->
                          IF i <= c.server_count THEN free(c.server_urls[i])
                          ELSE c.server_urls[i]],
       !.server_count = 0,
       !.double_free = @ \/ \E i \in 1..c.server_count :
                                c.server_urls[i] = "freed"]

\* server_urls[server_count++] = strdup(..) for each of n strings, while
\* server_count < MAX_SERVERS
AppendUrls(c, n) ==
    LET count == Min(c.server_count + n, MAX_SERVERS)
    IN  [c EXCEPT
           !.server_urls = [i \in ServerSlots |->
                              IF i > c.server_count /\ i <= count THEN "live"
                              ELSE c.server_urls[i]],
           !.server_count = count]

\* free(server_urls[0]); server_urls[0] = strdup(..); server_count = 1
ReplaceFirst(c) ==
    [c EXCEPT !.server_urls[1] = "live",
              !.server_count = 1,
              !.double_free = @ \/ c.server_urls[1] = "freed"]

\* What a configuration file says about the servers: nothing ("none": no
\* file, no JSON object, or neither key), a server_urls array of `size'
\* elements of which `strings' are strings, or a server_url string
ArraySizes == {0, 1, 2, MAX_SERVERS, MAX_SERVERS + 1}
FileContents ==
    {[kind |-> k, size |-> 0, strings |-> 0] : k \in {"none", "single"}}
      \cup UNION {{[kind |-> "array", size |-> n, strings |-> m] :
                      m \in {k \in {0, 1, n} : k <= n}} : n \in ArraySizes}

cchd_config_load_file(c, file) ==
    IF file.kind = "array"
      THEN IF file.size > 0 /\ file.size <= MAX_SERVERS
             THEN AppendUrls(ClearServers(c), file.strings)
             ELSE c
    ELSE IF file.kind = "single" THEN ReplaceFirst(c)
    ELSE c

\* HOOK_SERVER_URL is set or not
cchd_config_load_env(c, env_server) ==
    IF env_server THEN ReplaceFirst(c) ELSE c

\* The value of one --server option: without a comma a single URL, with
\* commas the `tokens' non-empty pieces strtok finds ("," has none)
ServerArgs ==
    {[comma |-> FALSE, tokens |-> 1]}
      \cup {[comma |-> TRUE, tokens |-> n] : n \in {0, 2, MAX_SERVERS + 1}}

ServerArg(c, arg) ==
    IF arg.comma THEN AppendUrls(ClearServers(c), arg.tokens)
    ELSE ReplaceFirst(c)

\* The --server options of a command line, in order
RECURSIVE ArgLists(_)
ArgLists(n) ==
    IF n = 0 THEN {<< >>}
    ELSE ArgLists(n - 1)
           \cup {Append(args, arg) : args \in ArgLists(n - 1),
                                     arg \in ServerArgs}

RECURSIVE cchd_config_load_args(_, _)
cchd_config_load_args(c, args) ==
    IF args = << >> THEN c
    ELSE cchd_config_load_args(ServerArg(c, Head(args)), Tail(args))

cchd_config_add_server_url(c) ==
    IF c.server_count < MAX_SERVERS THEN AppendUrls(c, 1) ELSE c

\* cchd_config_destroy frees the slots below server_count (and then the
\* structure)
cchd_config_destroy(c) == ClearServers(c)

ConfigFrame ==
    UNCHANGED <<config, reader, threads, g_curl_handle, g_curl_mutex,
                dispatch_vars, server_response, server_http_status,
                result_vars, history_vars, main_vars, backoff_vars>>

\* The structure after an operation.  Freeing a string twice is undefined:
\* the allocator aborts the process or goes on with a damaged heap
Loaded(c, then) ==
    /\ loaded' = c
    /\ pc' \in (IF c.double_free THEN {then, "crashed"} ELSE {then})
    /\ ConfigFrame

InitConfig ==
    /\ config \in [server_urls : {<<SomeUrl>>}, fail_open : {TRUE},
                    json_output : {FALSE},
                    plain_output : {FALSE},
                    timeout_ms : {DEFAULT_TIMEOUT_MS}]
    /\ g_curl_handle = "NULL"
    /\ g_curl_mutex = "unlocked"
    /\ pc = "loading"
    /\ server_idx = 0
    /\ attempt = 0
    /\ max_attempts = 0
    /\ last_http_status = 0
    /\ server_response = EmptyBuffer
    /\ server_http_status = 0
    /\ program_exit_code = 0
    /\ modified_output_json = NullText
    /\ suppress_output = FALSE
    /\ stderr_out = << >>
    /\ sent = [e \in 1..MAX_SERVERS |-> 0]
    /\ kind = [e \in 1..MAX_SERVERS |-> "none"]
    /\ n200 = 0
    /\ nsleep = 0
    /\ answered = EmptyText
    /\ Transformed
    /\ NoBackoff
    /\ NoThreads
    /\ loaded = cchd_config_create
    /\ reader = NoReader

LoadFile ==
    /\ pc = "loading"
    /\ \E file \in FileContents :
         Loaded(cchd_config_load_file(loaded, file), "loading")

LoadEnv ==
    /\ pc = "loading"
    /\ \E env_server \in BOOLEAN :
         Loaded(cchd_config_load_env(loaded, env_server), "loading")

LoadArgs ==
    /\ pc = "loading"
    /\ \E args \in ArgLists(MaxServerArgs) :
         Loaded(cchd_config_load_args(loaded, args), "loading")

AddServerUrl ==
    /\ pc = "loading"
    /\ Loaded(cchd_config_add_server_url(loaded), "loading")

Destroy ==
    /\ pc = "loading"
    /\ Loaded(cchd_config_destroy(loaded), "destroyed")

NextConfig == LoadFile \/ LoadEnv \/ LoadArgs \/ AddServerUrl \/ Destroy

SpecConfig == InitConfig /\ [][NextConfig]_vars

(* Properties of the loaders (specification SpecConfig) *)

\* C37: after any sequence of cchd_config_create, cchd_config_load_file,
\* cchd_config_load_env, cchd_config_load_args and
\* cchd_config_add_server_url, the endpoint list holds at least 1 and at
\* most 10 URLs
C37_ListHoldsOneToTen ==
    pc = "loading"
      => loaded.server_count >= 1 /\ loaded.server_count <= MAX_SERVERS

\* C38: across any sequence of load operations followed by
\* cchd_config_destroy, no URL string of the server list is freed twice and
\* no operation frees a slot that an earlier operation already freed
C38_NoSlotFreedTwice == ~loaded.double_free

-----------------------------------------------------------------------------
(* input.c: cchd_read_input_from_stdin (specification SpecRead) *)

\* stdin holds `length' bytes, is a regular file or not, and holds a NUL
\* byte or not; the reader has `total_size' bytes in a buffer of `capacity'
\* bytes.  Allocation failures and read errors are left out.
InputLengths ==
    {0, 1, INPUT_BUFFER_READ_CHUNK_SIZE - 1, INPUT_BUFFER_READ_CHUNK_SIZE,
     INPUT_BUFFER_READ_CHUNK_SIZE + 1, INPUT_BUFFER_INITIAL_SIZE - 1,
     INPUT_BUFFER_INITIAL_SIZE, INPUT_BUFFER_INITIAL_SIZE + 1,
     2 * INPUT_BUFFER_INITIAL_SIZE,
     INPUT_MAX_SIZE - INPUT_BUFFER_READ_CHUNK_SIZE, INPUT_MAX_SIZE - 1,
     INPUT_MAX_SIZE, INPUT_MAX_SIZE + 1,
     INPUT_MAX_SIZE + INPUT_BUFFER_READ_CHUNK_SIZE}

ReadFrame ==
    UNCHANGED <<config, loaded, threads, g_curl_handle, g_curl_mutex,
                dispatch_vars, server_response, server_http_status,
                result_vars, history_vars, main_vars, backoff_vars>>

InitRead ==
    /\ config \in [server_urls : {<<SomeUrl>>}, fail_open : {TRUE},
                    json_output : {FALSE},
                    plain_output : {FALSE},
                    timeout_ms : {DEFAULT_TIMEOUT_MS}]
    /\ g_curl_handle = "NULL"
    /\ g_curl_mutex = "unlocked"
    /\ pc = "stdin"
    /\ server_idx = 0
    /\ attempt = 0
    /\ max_attempts = 0
    /\ last_http_status = 0
    /\ server_response = EmptyBuffer
    /\ server_http_status = 0
    /\ program_exit_code = 0
    /\ modified_output_json = NullText
    /\ suppress_output = FALSE
    /\ stderr_out = << >>
    /\ sent = [e \in 1..MAX_SERVERS |-> 0]
    /\ kind = [e \in 1..MAX_SERVERS |-> "none"]
    /\ n200 = 0
    /\ nsleep = 0
    /\ answered = EmptyText
    /\ Transformed
    /\ NoBackoff
    /\ NoThreads
    /\ loaded = NoConfig
    /\ \E length \in InputLengths, regular \in BOOLEAN, nul \in BOOLEAN :
         /\ nul => length > 0
         /\ reader = [NoReader EXCEPT !.length = length,
                                      !.regular = regular,
                                      !.nul = nul]

\* Lines 32-49: the first capacity, from the size of a regular file
ReadOpen ==
    /\ pc = "stdin"
    /\ reader' = [reader EXCEPT
                    !.capacity =
                      IF reader.regular /\ reader.length > 0
                        THEN IF reader.length < INPUT_MAX_SIZE
                               THEN reader.length + 1
                               ELSE INPUT_MAX_SIZE
                      ELSE INPUT_BUFFER_INITIAL_SIZE,
                    !.total_size = 0]
    /\ pc' = "reading"
    /\ ReadFrame

\* Lines 50-89: one turn of the loop.  fread returns bytes_to_read bytes, or
\* fewer at the end of the input
ReadChunk ==
    /\ pc = "reading"
    /\ LET short == reader.capacity - reader.total_size
                      < INPUT_BUFFER_READ_CHUNK_SIZE
           capacity == IF short
                         THEN Min(reader.capacity * 2, INPUT_MAX_SIZE)
                       ELSE reader.capacity
           remaining_capacity == capacity - reader.total_size
           bytes_to_read ==
               Min(remaining_capacity, INPUT_BUFFER_READ_CHUNK_SIZE)
           bytes_read == Min(bytes_to_read, reader.length - reader.total_size)
       IN  IF short /\ reader.capacity >= INPUT_MAX_SIZE
             THEN /\ pc' = "rejected"
                  /\ reader' = [reader EXCEPT !.capacity = 0]
           ELSE /\ reader' = [reader EXCEPT
                                !.capacity = capacity,
                                !.total_size = @ + bytes_read]
                /\ pc' = IF bytes_read < bytes_to_read THEN "filled"
                         ELSE "reading"
    /\ ReadFrame

\* Lines 91-108: the terminator, the validation and the shrinking
ReadFinish ==
    /\ pc = "filled"
    /\ IF reader.nul \/ reader.total_size > INPUT_MAX_SIZE
         THEN /\ pc' = "rejected"
              /\ reader' = [reader EXCEPT !.capacity = 0]
       ELSE /\ pc' = "returned"
            /\ reader' = [reader EXCEPT
                            !.terminated =
                              reader.total_size < reader.capacity,
                            !.capacity =
                              Min(reader.total_size + 1, reader.capacity)]
    /\ ReadFrame

NextRead == ReadOpen \/ ReadChunk \/ ReadFinish

SpecRead == InitRead /\ [][NextRead]_vars

(* Properties of the reader (specification SpecRead) *)

\* The reader has returned: a buffer or NULL
ReadDone == pc \in {"returned", "rejected"}

\* C39: cchd_read_input_from_stdin accepts every input of at most
\* INPUT_MAX_SIZE bytes (here: every such text, without a NUL byte),
\* returning it complete and NUL-terminated, and rejects every longer input
\* with an error instead of returning a truncated buffer
C39_AcceptsUpToMaxSize ==
    /\ pc = "returned"
         => reader.total_size = reader.length /\ reader.terminated
    /\ ReadDone /\ ~reader.nul
         => (pc = "returned" <=> reader.length <= INPUT_MAX_SIZE)

====
